---- MODULE Spec2Model ----
(***************************************************************************)
(* A model of cw-iper-test: several chains held by an Ecosystem, the IBC   *)
(* channel handshake, the per-chain pending-packet ledger, the relayer,    *)
(* and the ICS20 token-transfer application.                               *)
(*                                                                         *)
(* Strings that the code takes apart ("port/channel/denom") are kept as    *)
(* sequences of their "/"-separated segments; SHA-256 is kept as an        *)
(* injective function of the trace it digests.                             *)
(***************************************************************************)
EXTENDS Integers, Sequences, FiniteSets, TLC

VARIABLES
    channels,   \* chain id -> (channel number -> IbcChannelWrapper), IbcApp::channels
    sequence,   \* the Rc<RefCell<u64>> cells, in allocation order
    pending,    \* chain id -> (key -> IbcPacketType), PENDING_PACKETS
    bank,       \* chain id -> (<<address, denom>> -> amount), the bank keeper
    ics20db,    \* chain id -> (ibc denom -> trace), Ics20Db::incoming_denoms
    pc,         \* "idle", or "relaying" inside relay_all_packets
    res,        \* relay_all_packets' local `res`
    last,       \* what the last finished call returned
    nsent,      \* number of send messages executed so far (bounds the run)
    probe,      \* history: `at` the accepted transfers by ledger place, `log` all of
                \* them in order, `top` the highest key each ledger has held
    builder     \* the AppBuilder the chains are built from: its IBC module's and
                \* its stargate module's applications, and whether it is still there

vars == <<channels, sequence, pending, bank, ics20db, pc, res, last, nsent, probe, builder>>

----------------------------------------------------------------------------
(* Bounds of the model *)

MaxChannels == 2
MaxSends == 2
MaxAmount == 2

----------------------------------------------------------------------------
(* Generic helpers *)

SetMax(S) == CHOOSE x \in S : \A y \in S : y <= x
SetMin(S) == CHOOSE x \in S : \A y \in S : x <= y

Put(f, k, v) == [x \in DOMAIN f \cup {k} |-> IF x = k THEN v ELSE f[x]]
Drop(f, k) == [x \in DOMAIN f \ {k} |-> f[x]]

\* AppResult: Ok(v), Err(e); a panic (unwrap, unimplemented!) is kept apart.
Ok(v) == [ok |-> TRUE, panic |-> FALSE, v |-> v]
Err(e) == [ok |-> FALSE, panic |-> FALSE, v |-> e]
Panic(e) == [ok |-> FALSE, panic |-> TRUE, v |-> e]

----------------------------------------------------------------------------
(* Ecosystem::apps, a BTreeMap keyed by chain id: iteration follows the    *)
(* order of the keys.                                                      *)

ChainOrder == <<"a", "b">>
Chains == {ChainOrder[i] : i \in DOMAIN ChainOrder}

GetApp(chain_id) == chain_id \in Chains

----------------------------------------------------------------------------
(* ibc.rs: channel ids, creators, the channel registry and its status      *)

AsChannelString(n) == "channel-" \o ToString(n)

AsChannelNumber(s) ==
    IF \E n \in 0..MaxChannels : AsChannelString(n) = s
    THEN Ok(CHOOSE n \in 0..MaxChannels : AsChannelString(n) = s)
    ELSE Err("invalid channel-id")

IbcChannelCreator(port, version, chain_id) ==
    [port |-> port, version |-> version, chain_id |-> chain_id, channel_id |-> <<>>]

SetChannelId(creator, id) == [creator EXCEPT !.channel_id = <<id>>]

PortName(port) == port.name

AsEndpoint(creator) ==
    IF creator.channel_id = <<>>
    THEN Err("channel-id not set")
    ELSE Ok([port_id |-> PortName(creator.port),
             channel_id |-> AsChannelString(creator.channel_id[1])])

\* A registry whose records all hold one global counter
IbcChannelWrapperNewGlobalCounter(local, remote, cell) ==
    [local |-> local, remote |-> remote, status |-> "Created", sequence |-> 1]

IbcChannelWrapperNew(local, remote, cell) ==
    [local |-> local, remote |-> remote, status |-> "Created", sequence |-> cell]

ChannelsGet(reg, id) ==
    IF id \in DOMAIN reg THEN Ok(reg[id]) ELSE Err("channel not found")

ChannelsGetStr(reg, s) ==
    LET n == AsChannelNumber(s)
    IN  IF n.ok THEN ChannelsGet(reg, n.v) ELSE n

ChannelsNextKey(reg) ==
    IF DOMAIN reg = {} THEN 0 ELSE SetMax(DOMAIN reg) + 1

ChannelsInsert(reg, key, wrapper) ==
    [k \in DOMAIN reg \cup {key} |-> IF k = key THEN wrapper ELSE reg[k]]

\* A transition function that closes a confirmed channel
ToNextStatusCloses(status) ==
    CASE status = "Created" -> Ok("Opening")
      [] status = "Opening" -> Ok("Closed")
      [] OTHER -> Err("invalid status for next")

\* A transition function that never confirms: every status moves to Opening.
ToNextStatusNeverConfirms(status) == Ok("Opening")

ToNextStatus(status) ==
    CASE status = "Created" -> Ok("Opening")
      [] status = "Opening" -> Ok("Connected")
      [] OTHER -> Err("invalid status for next")

----------------------------------------------------------------------------
(* stargate.rs and iper_app_builder.rs: the applications of a chain.  An    *)
(* application is [name, port, msgs, queries]: its stargate name, its IBC   *)
(* port name, and the type urls of the messages and queries it handles.     *)

MsgTransferUrl == "/ibc.applications.transfer.v1.MsgTransfer"

Ics20App ==
    [name |-> "ics20", port |-> "transfer", msgs |-> {MsgTransferUrl}, queries |-> {}]

\* StargateUrls::type_urls, is_msg_type_url, is_query_type_url
TypeUrls(app) == app.queries \cup app.msgs
IsMsgTypeUrl(app, type_url) == type_url \in app.msgs
IsQueryTypeUrl(app, type_url) == type_url \in app.queries

\* A registration that checks nothing
TryAddApplicationUnchecked(applications, application) ==
    Ok(Put(applications, application.name, application))

\* IperStargateModule::try_add_application
TryAddApplication(applications, application) ==
    IF \E type_url \in TypeUrls(application) : \E n \in DOMAIN applications :
           \/ IsMsgTypeUrl(applications[n], type_url)
           \/ IsQueryTypeUrl(applications[n], type_url)
    THEN Err("Dupplicated type_url among applications")
    ELSE Ok(Put(applications, application.name, application))

\* AppBuilder with IperIbcModule::default() and IperStargateModule::default()
AppBuilderNew == [ibc |-> <<>>, stargate |-> <<>>, alive |-> TRUE]

\* AppBuilderIperExt::with_ibc_app: the unwrap panics on Err, and the builder,
\* moved into the call, is gone with what the call had done to it.
WithIbcApp(b, application) ==
    LET ibc == Put(b.ibc, application.port, application)
        added == TryAddApplication(b.stargate, application)
    IN  IF added.ok
        THEN [ibc |-> ibc, stargate |-> added.v, alive |-> TRUE]
        ELSE [ibc |-> ibc, stargate |-> b.stargate, alive |-> FALSE]

\* AppBuilderStargateExt::with_stargate_app
WithStargateApp(b, application) ==
    LET added == TryAddApplication(b.stargate, application)
    IN  IF added.ok
        THEN [ibc |-> b.ibc, stargate |-> added.v, alive |-> TRUE]
        ELSE [ibc |-> b.ibc, stargate |-> b.stargate, alive |-> FALSE]

----------------------------------------------------------------------------
(* Ports.  A Module port names an IbcApplication of the IbcModule (here    *)
(* "transfer", the Ics20 application); a Contract port is a contract whose *)
(* IBC entry points are opaque code: what they return is chosen by the     *)
(* caller of the model as an oracle.                                       *)

Ics20Port == [kind |-> "Module", name |-> "transfer"]
ContractPort == [kind |-> "Contract", name |-> "contract"]
Ports == {Ics20Port, ContractPort}

IsIcs20(port) == port.kind = "Module" /\ port.name = "transfer"

\* A module port no application is registered for, and a contract whose code
\* was stored without IBC entry points (store_ibc_code with `ibc: None`)
UnknownPort == [kind |-> "Module", name |-> "unknown"]
PlainContractPort == [kind |-> "Contract", name |-> "plain_contract"]

\* IbcModule::load_application as the functions of IbcModule use it: with `?`
\* in open_channel, channel_connect, packet_ack, packet_timeout and execute,
\* with unwrap() in packet_receive.
LoadApplication(path, application) ==
    IF application \in DOMAIN builder.ibc THEN Ok(application)
    ELSE IF path = "packet_receive"
    THEN Panic("called Result::unwrap() on an Err value")
    ELSE Err("application not found")

\* self.code_ids.get(&code_id).ok_or(anyhow!("Code ID not found"))
CodeIdsGet(port) ==
    IF port = PlainContractPort THEN Err("Code ID not found") ELSE Ok(port.name)

\* What answers for a port: the application of a module port, the IBC entry
\* points of a contract port
PortTarget(path, port) ==
    IF port.kind = "Module" THEN LoadApplication(path, port.name) ELSE CodeIdsGet(port)

\* Ics20::open_channel and Ics20::channel_connect always return Ok; a
\* contract's entry point fails when the oracle says so.
HandshakeHandlerOk(port, step, failAt) ==
    IsIcs20(port) \/ failAt # step

----------------------------------------------------------------------------
(* ibc_app.rs: IbcApp::open_channel and IbcApp::channel_connect.  `ch` is   *)
(* the channel registries of all chains, `ev` the events dispatched so far. *)

Dispatched(kind, chain, creator, counterparty_version) ==
    [kind |-> kind, chain |-> chain, channel_id |-> creator.channel_id,
     counterparty_version |-> counterparty_version]

IbcAppOpenChannel(st, chain, local, remote, cell, step, failAt) ==
    LET ev == Append(st.ev, Dispatched("open", chain, local, ""))
    IN  IF ~AsEndpoint(local).ok \/ ~AsEndpoint(remote).ok
        THEN [st EXCEPT !.ok = FALSE]
        ELSE IF ~PortTarget("open_channel", local.port).ok
        THEN [st EXCEPT !.ok = FALSE]
        ELSE IF ~HandshakeHandlerOk(local.port, step, failAt)
        THEN [st EXCEPT !.ok = FALSE, !.ev = ev]
        ELSE [st EXCEPT !.ev = ev,
                        !.ch[chain] = ChannelsInsert(@, local.channel_id[1],
                                          IbcChannelWrapperNew(local, remote, cell))]

IbcAppChannelConnect(st, chain, channel_id, step, failAt) ==
    LET got == ChannelsGet(st.ch[chain], channel_id)
        channel == got.v
        kind == IF channel.status = "Created" THEN "connect_ack" ELSE "connect_confirm"
        cv == IF channel.status = "Created" THEN channel.remote.version ELSE ""
        ev == Append(st.ev, Dispatched(kind, chain, channel.local, cv))
    IN  IF ~got.ok
        THEN [st EXCEPT !.ok = FALSE]
        ELSE IF channel.status \notin {"Created", "Opening"}
        THEN [st EXCEPT !.ok = FALSE]
        ELSE IF ~PortTarget("channel_connect", channel.local.port).ok
        THEN [st EXCEPT !.ok = FALSE]
        ELSE IF ~HandshakeHandlerOk(channel.local.port, step, failAt)
        THEN [st EXCEPT !.ok = FALSE, !.ev = ev]
        ELSE [st EXCEPT !.ev = ev,
                        !.ch[chain][channel_id].status = ToNextStatus(channel.status).v]

----------------------------------------------------------------------------
(* ecosystem.rs: Ecosystem::open_ibc_channel.  Every `?` of the code is an  *)
(* early return: a step runs only if the one before returned Ok.            *)

\* A sequence without the `?`: the next step runs whatever the last returned
ThenAnyway(st, next) == next

Then(st, next) == IF st.ok THEN next ELSE st

EcosystemOpenIbcChannel(ch, cell, creator_1, creator_2, failAt) ==
    LET st0 == [ok |-> TRUE, ch |-> ch, ev |-> <<>>]
    IN  IF ~GetApp(creator_1.chain_id) \/ ~GetApp(creator_2.chain_id)
        THEN [st0 EXCEPT !.ok = FALSE]
        ELSE
        LET chain_1 == creator_1.chain_id
            chain_2 == creator_2.chain_id
            channel_id_1 == ChannelsNextKey(ch[chain_1])
            channel_id_2 == ChannelsNextKey(ch[chain_2])
            channel_1 == SetChannelId(creator_1, channel_id_1)
            channel_2 == SetChannelId(creator_2, channel_id_2)
            st1 == IbcAppOpenChannel(st0, chain_1, channel_1, channel_2, cell, 1, failAt)
            st2 == Then(st1, IbcAppOpenChannel(st1, chain_2, channel_2, channel_1, cell, 2, failAt))
            st3 == Then(st2, IbcAppChannelConnect(st2, chain_1, channel_id_1, 3, failAt))
            st4 == Then(st3, IbcAppChannelConnect(st3, chain_2, channel_id_2, 4, failAt))
            st5 == Then(st4, IbcAppChannelConnect(st4, chain_1, channel_id_1, 5, failAt))
            st6 == Then(st5, IbcAppChannelConnect(st5, chain_2, channel_id_2, 6, failAt))
        IN  st6


----------------------------------------------------------------------------
(* The chain's block and addresses (cw_multi_test's App and MockApiBech32) *)

\* App::block_info(): the block a chain stands at while packets are relayed.
BlockInfo(chain) == [height |-> 2, time |-> 2]

User(chain) == chain \o "1user"
AddressContainer(chain) == chain \o "1ics20_addr_container"
InvalidAddress == "invalid_address"

\* A contract instantiated on the chain (the counter of the IBC hook tests)
HookContract(chain) == chain \o "1counter"

\* IbcHookHelper::parse_ibc_hooker_sender: the bech32 address, with the
\* chain's prefix, of the hash of "<channel>/<remote sender>"
ParseIbcHookerSender(chain, remote_add, channel) ==
    chain \o "1hook(" \o channel \o "/" \o remote_add \o ")"

\* Api::addr_validate: an address is valid on the chain whose prefix it has.
AddrValidate(chain, addr) ==
    addr \in {User(chain), AddressContainer(chain), HookContract(chain)}
            \cup {ParseIbcHookerSender(chain, User(c), "channel-" \o ToString(n)) :
                      c \in Chains, n \in 0..MaxChannels}

----------------------------------------------------------------------------
(* The bank keeper the ICS20 application drives through the router:        *)
(* balances are kept per <<address, denom>>, zero balances are not stored. *)

Balance(b, addr, denom) ==
    IF <<addr, denom>> \in DOMAIN b THEN b[<<addr, denom>>] ELSE 0

SetBalance(b, addr, denom, v) ==
    LET keys == IF v = 0 THEN DOMAIN b \ {<<addr, denom>>}
                ELSE DOMAIN b \cup {<<addr, denom>>}
    IN  [k \in keys |-> IF k = <<addr, denom>> THEN v ELSE b[k]]

Supply(b, denom) ==
    LET RECURSIVE Sum(_)
        Sum(K) == IF K = {} THEN 0
                  ELSE LET k == CHOOSE x \in K : TRUE
                       IN  (IF k[2] = denom THEN b[k] ELSE 0) + Sum(K \ {k})
    IN  Sum(DOMAIN b)

\* BankMsg::Burn
BankBurn(b, from, denom, amount) ==
    IF amount = 0 THEN Err("Cannot transfer empty coins amount")
    ELSE IF Balance(b, from, denom) < amount THEN Err("Overflow: Cannot Sub")
    ELSE Ok(SetBalance(b, from, denom, Balance(b, from, denom) - amount))

\* BankSudo::Mint
BankMint(b, to, denom, amount) ==
    IF amount = 0 THEN Err("Cannot transfer empty coins amount")
    ELSE Ok(SetBalance(b, to, denom, Balance(b, to, denom) + amount))

\* BankMsg::Send
BankSend(b, from, to, denom, amount) ==
    LET burnt == BankBurn(b, from, denom, amount)
    IN  IF burnt.ok THEN BankMint(burnt.v, to, denom, amount) ELSE burnt

----------------------------------------------------------------------------
(* Decimal strings of amounts: Uint128::to_string and Uint128::from_str    *)

Uint128ToString(n) == ToString(n)

Uint128FromStr(s) ==
    IF \E n \in 0..MaxAmount : ToString(n) = s
    THEN Ok(CHOOSE n \in 0..MaxAmount : ToString(n) = s)
    ELSE Err("Error parsing whole")

----------------------------------------------------------------------------
(* ibc_module.rs: packets and the pending-packet ledger                    *)

IbcTimeout(height, nanos) == [height |-> height, nanos |-> nanos]

OutgoingPacket(data, src, dest, timeout) ==
    [type |-> "OutgoingPacket", data |-> data, src |-> src, dest |-> dest,
     timeout |-> timeout]

OutgoingPacketRaw(data, src_port, src_channel, timeout) ==
    [type |-> "OutgoinPacketRaw", data |-> data, src_port |-> src_port,
     src_channel |-> src_channel, timeout |-> timeout]

\* IbcPacketReceiveMsg { packet: IbcPacket, relayer }
IbcPacket(data, src, dest, seq, timeout) ==
    [data |-> data, src |-> src, dest |-> dest, sequence |-> seq, timeout |-> timeout]

\* An acknowledgement packet that is marked successful whatever happened
AckPacketMarkedSuccessful(ack, original_packet, success) ==
    [type |-> "AckPacket", ack |-> ack, original_packet |-> original_packet,
     success |-> TRUE]

AckPacket(ack, original_packet, success) ==
    [type |-> "AckPacket", ack |-> ack, original_packet |-> original_packet,
     success |-> success]

TimeoutPacket(original_packet) ==
    [type |-> "Timeout", original_packet |-> original_packet]

CloseChannelPacket(channel_id) ==
    [type |-> "CloseChannel", channel_id |-> channel_id]

GetLocalChannelId(packet) ==
    CASE packet.type = "AckPacket" -> packet.original_packet.dest.channel_id
      [] packet.type = "OutgoingPacket" -> packet.src.channel_id
      [] packet.type = "CloseChannel" -> packet.channel_id
      [] packet.type = "OutgoinPacketRaw" -> packet.src_channel
      [] packet.type = "Timeout" -> packet.original_packet.dest.channel_id

IntoFullPacket(raw, channel) ==
    IF ~AsEndpoint(channel.local).ok \/ ~AsEndpoint(channel.remote).ok
    THEN Err("channel-id not set")
    ELSE Ok(OutgoingPacket(raw.data, AsEndpoint(channel.local).v,
                           AsEndpoint(channel.remote).v, raw.timeout))

\* emit_packet and emit_packet_boxed: file under the last key plus one
NewKey(packets) ==
    IF DOMAIN packets = {} THEN 1 ELSE SetMax(DOMAIN packets) + 1

EmitPacket(packets, packet) ==
    LET new_key == NewKey(packets)
    IN  [k \in DOMAIN packets \cup {new_key} |->
            IF k = new_key THEN packet ELSE packets[k]]

\* IbcApp::some_pending_packets, get_next_pending_packet, get_pending_packet,
\* remove_packet
\* A ledger that always claims to hold something
SomePendingAlways(packets) == TRUE

SomePendingPackets(packets) == DOMAIN packets # {}

\* The newest key instead of the oldest
GetLastPendingPacket(packets) ==
    IF DOMAIN packets = {} THEN Err("No pending packets")
    ELSE Ok(SetMax(DOMAIN packets))

GetNextPendingPacket(packets) ==
    IF DOMAIN packets = {} THEN Err("No pending packets")
    ELSE Ok(SetMin(DOMAIN packets))

GetPendingPacket(packets, packet_id) ==
    IF packet_id \in DOMAIN packets THEN Ok(packets[packet_id])
    ELSE Err("Packet not found")

RemovePacket(packets, packet_id) ==
    [k \in DOMAIN packets \ {packet_id} |-> packets[k]]


----------------------------------------------------------------------------
(* ibc_applications/ics20.rs: packet data, acknowledgements, Ics20Db       *)

\* A denomination or trace "x/y/z" is the sequence <<"x", "y", "z">>.
RECURSIVE Join(_)
Join(segs) ==
    IF Len(segs) = 0 THEN ""
    ELSE IF Len(segs) = 1 THEN segs[1]
    ELSE segs[1] \o "/" \o Join(Tail(segs))

\* str::starts_with("<seg>/")
StartsWithSegment(denom, seg) == Len(denom) >= 2 /\ denom[1] = seg

\* str::strip_prefix("<port>/<channel>/")
StripPrefix(denom, port_id, channel_id) ==
    IF Len(denom) >= 3 /\ denom[1] = port_id /\ denom[2] = channel_id
    THEN Ok(SubSeq(denom, 3, Len(denom)))
    ELSE Err("no prefix")

\* The uppercase hex SHA-256 digest of the trace: one segment, a different
\* one for every trace.
Sha256Hex(trace) == "SHA256(" \o Join(trace) \o ")"

ComputeIbcDenomFromTrace(trace) == <<"ibc", Sha256Hex(trace)>>

FungibleTokenPacketData(denom, amount, sender, receiver, memo) ==
    [kind |-> "ftpd", denom |-> denom, amount |-> amount, sender |-> sender,
     receiver |-> receiver, memo |-> memo]

\* A packet payload that is not a FungibleTokenPacketData (a contract's own).
OpaqueData ==
    [kind |-> "opaque", denom |-> <<>>, amount |-> "", sender |-> "",
     receiver |-> "", memo |-> ""]

\* from_json::<FungibleTokenPacketData>
FromJsonPacketData(data) ==
    IF data.kind = "ftpd" THEN Ok(data) ELSE Err("Error parsing into type")

\* FungibleTokenPacketAck::Ok, FungibleTokenPacketAck::Err(..), and the
\* acknowledgement bytes a contract chooses itself
AckOk == "Ok"
AckErr == "Err"
AckOpaque == "opaque"

\* from_json::<FungibleTokenPacketAck>
FromJsonAck(ack) ==
    IF ack \in {AckOk, AckErr} THEN Ok(ack) ELSE Err("Error parsing into type")

\* Ics20Db::handle_outgoing
Ics20DbHandleOutgoing(db, denom) ==
    IF StartsWithSegment(denom, "ibc")
    THEN IF denom \in DOMAIN db
         THEN Ok([denom |-> db[denom], is_local |-> FALSE])
         ELSE Panic("called Option::unwrap() on a None value")
    ELSE Ok([denom |-> denom, is_local |-> TRUE])

\* A table that forgets what it held when a new trace comes in
Ics20DbDenomFromPacketForgetting(db, packet) ==
    LET data == FromJsonPacketData(packet.data)
        stripped == StripPrefix(data.v.denom, packet.src.port_id, packet.src.channel_id)
        new_trace == <<packet.dest.port_id, packet.dest.channel_id>> \o data.v.denom
        new_denom == ComputeIbcDenomFromTrace(new_trace)
    IN  IF ~data.ok THEN data
        ELSE IF stripped.ok
        THEN Ok([denom |-> IF StartsWithSegment(stripped.v, "transfer")
                           THEN ComputeIbcDenomFromTrace(stripped.v)
                           ELSE stripped.v,
                 is_local |-> TRUE,
                 db |-> db])
        ELSE Ok([denom |-> new_denom, is_local |-> FALSE,
                 db |-> [d \in {new_denom} |-> new_trace]])

\* A receiver that tests the prefix of the packet's destination endpoint
Ics20DbDenomFromPacketDestPrefix(db, packet) ==
    LET data == FromJsonPacketData(packet.data)
        stripped == StripPrefix(data.v.denom, packet.dest.port_id, packet.dest.channel_id)
        new_trace == <<packet.dest.port_id, packet.dest.channel_id>> \o data.v.denom
        new_denom == ComputeIbcDenomFromTrace(new_trace)
    IN  IF ~data.ok THEN data
        ELSE IF stripped.ok
        THEN Ok([denom |-> IF StartsWithSegment(stripped.v, "transfer")
                           THEN ComputeIbcDenomFromTrace(stripped.v)
                           ELSE stripped.v,
                 is_local |-> TRUE,
                 db |-> db])
        ELSE Ok([denom |-> new_denom,
                 is_local |-> FALSE,
                 db |-> [d \in DOMAIN db \cup {new_denom} |->
                            IF d = new_denom THEN new_trace ELSE db[d]]])

\* Ics20Db::denom_from_packet (with the table as it is after the call)
Ics20DbDenomFromPacket(db, packet) ==
    LET data == FromJsonPacketData(packet.data)
        stripped == StripPrefix(data.v.denom, packet.src.port_id, packet.src.channel_id)
        new_trace == <<packet.dest.port_id, packet.dest.channel_id>> \o data.v.denom
        new_denom == ComputeIbcDenomFromTrace(new_trace)
    IN  IF ~data.ok THEN data
        ELSE IF stripped.ok
        THEN Ok([denom |-> IF StartsWithSegment(stripped.v, "transfer")
                           THEN ComputeIbcDenomFromTrace(stripped.v)
                           ELSE stripped.v,
                 is_local |-> TRUE,
                 db |-> db])
        ELSE Ok([denom |-> new_denom,
                 is_local |-> FALSE,
                 db |-> [d \in DOMAIN db \cup {new_denom} |->
                            IF d = new_denom THEN new_trace ELSE db[d]]])

----------------------------------------------------------------------------
(* Ics20 as an IbcApplication.  `st` is one chain's storage:               *)
(* [pending, bank, db].                                                    *)

\* Ics20::handle_outgoing_packet
Ics20HandleOutgoingPacket(st, chain, sender, msg, channel) ==
    IF msg.type = "CloseChannel"
    THEN Panic("Close Channel not implemented yet on ICS20")
    ELSE
    LET parsed == IF msg.type = "Transfer"
                  THEN Ok(FungibleTokenPacketData(msg.amount.denom,
                              Uint128ToString(msg.amount.amount), sender,
                              msg.to_address, msg.memo))
                  ELSE FromJsonPacketData(msg.data)
        data == parsed.v
        out == Ics20DbHandleOutgoing(st.db, data.denom)
        amount == Uint128FromStr(data.amount)
        moved == IF out.v.is_local
                 THEN BankSend(st.bank, sender, AddressContainer(chain),
                               data.denom, amount.v)
                 ELSE BankBurn(st.bank, sender, data.denom, amount.v)
        packet == OutgoingPacket([data EXCEPT !.denom = out.v.denom],
                                 AsEndpoint(channel.local).v,
                                 AsEndpoint(channel.remote).v, msg.timeout)
    IN  IF ~parsed.ok THEN parsed
        ELSE IF ~out.ok THEN out
        ELSE IF ~amount.ok THEN amount
        ELSE IF ~moved.ok THEN moved
        ELSE IF ~AsEndpoint(channel.local).ok \/ ~AsEndpoint(channel.remote).ok
        THEN Err("channel-id not set")
        ELSE Ok([st EXCEPT !.bank = moved.v,
                           !.pending = EmitPacket(st.pending, packet)])

\* Ics20::packet_receive: InfallibleResult::Ok or ::Err, both with an ack;
\* `st` of the result is the storage as the call leaves it (its cache).
Ics20PacketReceive(st, chain, packet) ==
    LET data == FromJsonPacketData(packet.data)
        incoming == Ics20DbDenomFromPacket(st.db, packet)
        saved == [st EXCEPT !.db = incoming.v.db]
        amount == Uint128FromStr(data.v.amount)
        moved == IF incoming.v.is_local
                 THEN BankSend(st.bank, AddressContainer(chain), data.v.receiver,
                               incoming.v.denom, amount.v)
                 ELSE BankMint(st.bank, data.v.receiver, incoming.v.denom, amount.v)
    IN  IF ~data.ok \/ ~incoming.ok
        THEN [ok |-> FALSE, st |-> st, ack |-> <<AckErr>>]
        ELSE IF ~AddrValidate(chain, data.v.receiver) \/ ~amount.ok \/ ~moved.ok
        THEN [ok |-> FALSE, st |-> saved, ack |-> <<AckErr>>]
        ELSE [ok |-> TRUE, st |-> [saved EXCEPT !.bank = moved.v], ack |-> <<AckOk>>]

\* Ics20::packet_ack
Ics20PacketAck(st, ack, original_packet) ==
    LET parsed == FromJsonAck(ack)
        data == FromJsonPacketData(original_packet.data)
        amount == Uint128FromStr(data.v.amount)
        minted == BankMint(st.bank, data.v.sender, data.v.denom, amount.v)
    IN  IF ~parsed.ok THEN parsed
        ELSE IF parsed.v = AckOk THEN Ok(st)
        ELSE IF ~data.ok THEN data
        ELSE IF ~amount.ok THEN amount
        ELSE IF ~minted.ok THEN minted
        ELSE Ok([st EXCEPT !.bank = minted.v])

\* Ics20::packet_timeout: an acknowledgement Err("Timeout")
Ics20PacketTimeout(st, original_packet) ==
    Ics20PacketAck(st, AckErr, original_packet)


\* Ics20::stargate_msg (MsgTransfer)
Ics20StargateMsg(st, sender, msg) ==
    LET amount == Uint128FromStr(msg.token.amount)
        burnt == BankBurn(st.bank, sender, msg.token.denom, amount.v)
        data == FungibleTokenPacketData(msg.token.denom, msg.token.amount, sender,
                                        msg.receiver, msg.memo)
    IN  IF ~amount.ok THEN amount
        ELSE IF ~burnt.ok THEN burnt
        ELSE IF msg.timeout_timestamp = 0 /\ msg.timeout_height = 0
        THEN Panic("not implemented")
        ELSE Ok([st EXCEPT !.bank = burnt.v,
                           !.pending = EmitPacket(st.pending,
                               OutgoingPacketRaw(data, msg.source_port, msg.source_channel,
                                   IbcTimeout(msg.timeout_height, msg.timeout_timestamp)))])

----------------------------------------------------------------------------
(* middleware.rs: the receive path of `impl IbcApplication for T:          *)
(* Middleware` over Ics20.  A middleware is [before, after]: what its two   *)
(* receive hooks return.  The hooks are code of the test that installs the  *)
(* middleware and write nothing themselves.                                 *)

\* AckSetting::Replace(b), ::Remove, ::UseChildren
Replace(b) == [type |-> "Replace", ack |-> b]
Remove == [type |-> "Remove", ack |-> ""]
UseChildren == [type |-> "UseChildren", ack |-> ""]

AckSettings == {Replace(AckOpaque), Remove, UseChildren}

\* A merge that always keeps the acknowledgement of the wrapped application
MergeAckKeepsChildren(setting, response) == response.ack

\* AckSetting::merge_ack: the Option<Binary> is <<>> or <<b>>
MergeAck(setting, response) ==
    CASE setting.type = "Replace" -> <<setting.ack>>
      [] setting.type = "Remove" -> <<>>
      [] OTHER -> response.ack

\* Middleware::mid_packet_receive_before and ::mid_packet_receive_after as
\* the trait provides them
DefaultReceiveBefore == "Continue"
DefaultReceiveAfter == [ok |-> TRUE, ack |-> UseChildren]

DefaultMiddleware == [before |-> DefaultReceiveBefore, after |-> DefaultReceiveAfter]

\* What an overriding hook can return: Stop(PacketReceiveOk), Continue or a
\* PacketReceiveFailing before; MidRecOk or MidRecFailing, with any
\* AckSetting, after.
ReceiveMiddlewares ==
    [before : {"Continue"}, after : [ok : BOOLEAN, ack : AckSettings]]
        \cup [before : {"Stop", "Err"}, after : {DefaultReceiveAfter}]

\* A packet_receive that reports what the wrapped application reported
MiddlewarePacketReceivePropagates(mid, st, chain, packet) ==
    LET sub_response == Ics20PacketReceive(st, chain, packet)
    IN  CASE mid.before = "Stop" -> [ok |-> TRUE, st |-> st, ack |-> <<AckOpaque>>]
          [] mid.before = "Err" -> [ok |-> FALSE, st |-> st, ack |-> <<AckOpaque>>]
          [] OTHER -> [ok |-> mid.after.ok /\ sub_response.ok,
                       st |-> sub_response.st,
                       ack |-> MergeAck(mid.after.ack, sub_response)]

\* packet_receive of a middleware around Ics20: the result is the after
\* hook's, Ok or Err, whatever sub_response is; the storage is the one
\* Ics20 wrote to.
MiddlewarePacketReceive(mid, st, chain, packet) ==
    LET sub_response == Ics20PacketReceive(st, chain, packet)
    IN  CASE mid.before = "Stop" -> [ok |-> TRUE, st |-> st, ack |-> <<AckOpaque>>]
          [] mid.before = "Err" -> [ok |-> FALSE, st |-> st, ack |-> <<AckOpaque>>]
          [] OTHER -> [ok |-> mid.after.ok,
                       st |-> sub_response.st,
                       ack |-> MergeAck(mid.after.ack, sub_response)]

----------------------------------------------------------------------------
(* ibc_applications/ibc_hook.rs: IbcHook, the middleware that executes the  *)
(* contract a transfer's memo names.                                        *)

\* The memo of MemoField { wasm: Some(WasmField { contract, msg:
\* JustReceive { to_fail } }) }, of MemoField { wasm: None }, and one that
\* is no JSON
WasmMemo(contract, to_fail) ==
    "{wasm:{contract:" \o contract \o ",msg:{just_receive:{to_fail:"
        \o (IF to_fail THEN "true" ELSE "false") \o "}}}}"
EmptyMemoField == "{}"
MalformedMemo == "not json"

WasmFields == [contract : {HookContract(c) : c \in Chains}, to_fail : BOOLEAN]

\* serde_json::from_str::<MemoField<Value>>: `wasm` is <<>> or <<field>>
FromStrMemoField(memo) ==
    IF memo = EmptyMemoField THEN Ok([wasm |-> <<>>])
    ELSE IF \E f \in WasmFields : memo = WasmMemo(f.contract, f.to_fail)
    THEN Ok([wasm |-> <<CHOOSE f \in WasmFields : memo = WasmMemo(f.contract, f.to_fail)>>])
    ELSE Err("expected value")

\* router.execute of WasmMsg::Execute { contract_addr, msg, funds } by
\* `sender`: the funds go to the contract, then counter::execute runs
\* JustReceive, which fails when to_fail is set
WasmExecute(st, chain, sender, wasm, denom, amount) ==
    LET moved == BankSend(st.bank, sender, wasm.contract, denom, amount)
    IN  IF wasm.contract # HookContract(chain) THEN Err("contract not found")
        ELSE IF ~moved.ok THEN moved
        ELSE IF wasm.to_fail THEN Err("Generic error")
        ELSE Ok([st EXCEPT !.bank = moved.v])

\* IbcHook::mid_packet_receive_before: always Continue, with the receiver
\* replaced by the hook's intermediary address when the memo parses
IbcHookReceiveBefore(chain, packet) ==
    LET data == FromJsonPacketData(packet.data)
    IN  IF ~data.ok THEN packet
        ELSE IF data.v.memo = "" THEN packet
        ELSE IF ~FromStrMemoField(data.v.memo).ok THEN packet
        ELSE [packet EXCEPT !.data.receiver =
                 ParseIbcHookerSender(chain, data.v.sender, packet.dest.channel_id)]

\* An after hook that reports Ok whatever the contract answered
IbcHookReceiveAfterIgnoresContract(chain, original_packet, forwarded_packet, forwarded_response) ==
    forwarded_response

\* IbcHook::mid_packet_receive_after: the contract named by the memo is
\* executed with the tokens Ics20 handed to the intermediary address; the
\* contract's error is the result, any other error leaves Ics20's result.
IbcHookReceiveAfter(chain, original_packet, forwarded_packet, forwarded_response) ==
    LET data == FromJsonPacketData(original_packet.data)
        wasm_field == FromStrMemoField(data.v.memo)
        st == forwarded_response.st
        incoming == Ics20DbDenomFromPacket(st.db, original_packet)
        amount == Uint128FromStr(data.v.amount)
        executed == WasmExecute(st, chain,
                        ParseIbcHookerSender(chain, data.v.sender,
                                             original_packet.dest.channel_id),
                        wasm_field.v.wasm[1], incoming.v.denom, amount.v)
    IN  IF original_packet = forwarded_packet THEN forwarded_response
        ELSE IF ~data.ok \/ ~wasm_field.ok \/ ~incoming.ok THEN forwarded_response
        ELSE IF wasm_field.v.wasm = <<>> THEN forwarded_response
        ELSE IF ~amount.ok THEN forwarded_response
        ELSE IF executed.ok
        THEN [ok |-> TRUE, st |-> executed.v, ack |-> forwarded_response.ack]
        ELSE [ok |-> FALSE, st |-> st, ack |-> <<AckErr>>]

\* packet_receive of IbcHook around Ics20: the before hook, Ics20 with the
\* packet it forwards, and the after hook with Ics20's PacketReceiveOk;
\* the after hook's result is the result.
IbcHookPacketReceive(st, chain, packet) ==
    LET sub_response == Ics20PacketReceive(st, chain, IbcHookReceiveBefore(chain, packet))
    IN  IF sub_response.ok
        THEN IbcHookReceiveAfter(chain, packet, IbcHookReceiveBefore(chain, packet),
                                 sub_response)
        ELSE sub_response

\* IbcHook::new(Ics20) as the application of the port
IbcHook == [before |-> "IbcHook", after |-> DefaultReceiveAfter]

\* IbcModule::packet_receive: the application installed on the port, Ics20
\* itself or a middleware around it (`w.mid`)
ModulePacketReceive(w, chain, packet) ==
    IF w.mid = <<>>
    THEN Ics20PacketReceive(w.store[chain], chain, packet)
    ELSE IF w.mid[1].before = "IbcHook"
    THEN IbcHookPacketReceive(w.store[chain], chain, packet)
    ELSE MiddlewarePacketReceive(w.mid[1], w.store[chain], chain, packet)

----------------------------------------------------------------------------
(* Transactions: cw_multi_test::transactional and ibc_app.rs'              *)
(* infallible_transactional commit the cache only on success.              *)

Transactional(base, result) ==
    IF result.ok THEN result.v ELSE base

\* A transaction that commits the cache whatever the handler reports
InfallibleTransactionalCommitsAlways(base, result) == result.st

InfallibleTransactional(base, result) ==
    IF result.ok THEN result.st ELSE base

----------------------------------------------------------------------------
(* ibc.rs: IbcMsgExt, and ibc_module.rs: IbcModule::execute.               *)
(* `w` is the world: [channels, sequence, store], store[chain] being the   *)
(* chain's storage.                                                        *)

\* IbcMsgExt::into_packet
IntoPacket(msg, sender, channel) ==
    LET src == AsEndpoint(channel.local)
        dest == AsEndpoint(channel.remote)
    IN  IF ~src.ok THEN src
        ELSE IF ~dest.ok THEN dest
        ELSE IF msg.type = "Transfer"
        THEN Ok(OutgoingPacket(
                 FungibleTokenPacketData(msg.amount.denom,
                     Uint128ToString(msg.amount.amount), sender, msg.to_address, msg.memo),
                 src.v, dest.v, msg.timeout))
        ELSE IF msg.type = "SendPacket"
        THEN Ok(OutgoingPacket(msg.data, src.v, dest.v, msg.timeout))
        ELSE Ok(CloseChannelPacket(msg.channel_id))

\* IbcModule::execute, the result being the chain's storage
IbcModuleExecute(w, chain, sender, msg) ==
    LET got == ChannelsGetStr(w.channels[chain], msg.channel_id)
        channel == got.v
        st == w.store[chain]
        packet == IntoPacket(msg, sender, channel)
    IN  IF ~got.ok THEN got
        ELSE IF channel.local.port.kind = "Module"
        THEN IF PortTarget("execute", channel.local.port).ok
             THEN Ics20HandleOutgoingPacket(st, chain, sender, msg, channel)
             ELSE PortTarget("execute", channel.local.port)
        ELSE IF ~packet.ok THEN packet
        ELSE Ok([st EXCEPT !.pending = EmitPacket(st.pending, packet.v)])

\* App::execute of a CosmosMsg::Ibc: all or nothing
AppExecuteIbc(w, chain, sender, msg) ==
    LET result == IbcModuleExecute(w, chain, sender, msg)
    IN  [ret |-> [result EXCEPT !.v = ""],
         w |-> [w EXCEPT !.store[chain] = Transactional(@, result)]]

\* App::execute of a CosmosMsg::Any carrying a MsgTransfer
AppExecuteStargate(w, chain, sender, msg) ==
    LET result == Ics20StargateMsg(w.store[chain], sender, msg)
    IN  [ret |-> [result EXCEPT !.v = ""],
         w |-> [w EXCEPT !.store[chain] = Transactional(@, result)]]


----------------------------------------------------------------------------
(* ibc_app.rs: the receiving side.  A result is [ret, may, w]: `ret` the    *)
(* AppResult (Ok, Err or a panic), `may` the MayResponse when it is Ok, `w` *)
(* the world as the call leaves it.  `oracle` is what a contract's entry    *)
(* point answers: "ack" or "noack" at a receive (its type is                *)
(* Result<IbcReceiveResponse, Never>, it has no error to return), "err" or   *)
(* anything else at an acknowledgement or a timeout.                        *)

Returned(ret, may, w) == [ret |-> ret, may |-> may, w |-> w]

\* IbcApp::check_timeout
CheckTimeout(chain, packet) ==
    LET height == packet.timeout.height
        nanos == packet.timeout.nanos
        block == BlockInfo(chain)
        invalid == CASE height = 0 /\ nanos = 0 -> TRUE
                     [] height = 0 /\ nanos # 0 -> block.time > nanos
                     [] height # 0 /\ nanos = 0 -> block.height > height
                     [] OTHER -> ~(block.time > nanos /\ block.height > height)
    IN  IF invalid THEN Err("Packet has timed out") ELSE Ok("")

\* An emit that files every packet in the ledger of the first chain
EmitOnFirstChain(w, chain, packet) ==
    [w EXCEPT !.store[ChainOrder[1]].pending = EmitPacket(@, packet)]

\* emit_packet on the chain's own storage
EmitOn(w, chain, packet) ==
    [w EXCEPT !.store[chain].pending = EmitPacket(@, packet)]

\* History: the entry points of IbcApp a call went through, in order
Log(w, chain, path) ==
    [w EXCEPT !.calls = Append(@, [chain |-> chain, path |-> path])]

\* History: the transactions a call ran on a module's behalf: what the
\* handler reported, the storage it started from and the cache it wrote to
Tx(w, chain, path, ok, base, cache) ==
    [w EXCEPT !.txs = Append(@, [chain |-> chain, path |-> path, ok |-> ok,
                                 base |-> [bank |-> base.bank, db |-> base.db],
                                 cache |-> [bank |-> cache.bank, db |-> cache.db]])]

\* infallible_transactional around the module's packet_receive
ReceiveTransaction(w, chain, received) ==
    Tx([w EXCEPT !.store[chain] = InfallibleTransactional(@, received)],
       chain, "packet_receive", received.ok, w.store[chain], received.st)

\* transactional around the module's packet_ack or packet_timeout
NoticeTransaction(w, chain, path, result) ==
    Tx([w EXCEPT !.store[chain] = Transactional(@, result)],
       chain, path, result.ok, w.store[chain],
       IF result.ok THEN result.v ELSE w.store[chain])

\* The IbcPort::Module arm of IbcApp::packet_receive, `received` being what
\* the module's packet_receive returned
ModuleReceived(w, chain, msg, received) ==
    Returned(Ok(""), IF received.ok THEN "Ok" ELSE "Err",
             IF received.ack = <<>> THEN ReceiveTransaction(w, chain, received)
             ELSE EmitOn(ReceiveTransaction(w, chain, received), chain,
                         AckPacket(received.ack[1], msg, received.ok)))

\* IbcApp::packet_receive
IbcAppPacketReceive(w0, chain, packet, oracle) ==
    LET w == Log(w0, chain, "packet_receive")
        got == ChannelsGetStr(w.channels[chain], packet.dest.channel_id)
        channel == got.v
        w1 == [w EXCEPT !.sequence[channel.sequence] = @ + 1]
        src == AsEndpoint(channel.remote)
        dest == AsEndpoint(channel.local)
        msg == IbcPacket(packet.data, src.v, dest.v,
                         w1.sequence[channel.sequence], packet.timeout)
    IN  IF ~got.ok THEN Returned(got, "", w)
        ELSE IF ~src.ok \/ ~dest.ok THEN Returned(Err("channel-id not set"), "", w1)
        ELSE IF ~CheckTimeout(chain, packet).ok
        THEN Returned(Ok(""), "Err", EmitOn(w1, chain, TimeoutPacket(msg)))
        ELSE IF ~PortTarget("packet_receive", channel.local.port).ok
        THEN Returned(PortTarget("packet_receive", channel.local.port), "", w1)
        ELSE IF channel.local.port.kind = "Contract"
        THEN IF oracle = "noack" THEN Returned(Ok(""), "Ok", w1)
             ELSE Returned(Ok(""), "Ok", EmitOn(w1, chain, AckPacket(AckOpaque, msg, TRUE)))
        ELSE ModuleReceived(w1, chain, msg, ModulePacketReceive(w1, chain, msg))

\* IbcApp::packet_ack
IbcAppPacketAck(w0, chain, packet, oracle) ==
    LET w == Log(w0, chain, "packet_ack")
        got == ChannelsGetStr(w.channels[chain], packet.original_packet.src.channel_id)
        channel == got.v
        acked == Ics20PacketAck(w.store[chain], packet.ack, packet.original_packet)
    IN  IF ~got.ok THEN Returned(got, "", w)
        ELSE IF ~PortTarget("packet_ack", channel.local.port).ok
        THEN Returned(PortTarget("packet_ack", channel.local.port), "", w)
        ELSE IF channel.local.port.kind = "Contract"
        THEN IF oracle = "err" THEN Returned(Err("contract error"), "", w)
             ELSE Returned(Ok(""), "Ok", w)
        ELSE Returned([acked EXCEPT !.v = ""], "Ok",
                      NoticeTransaction(w, chain, "packet_ack", acked))

\* IbcApp::packet_timeout
IbcAppPacketTimeout(w0, chain, packet, oracle) ==
    LET w == Log(w0, chain, "packet_timeout")
        got == ChannelsGetStr(w.channels[chain], packet.original_packet.src.channel_id)
        channel == got.v
        timed == Ics20PacketTimeout(w.store[chain], packet.original_packet)
    IN  IF ~got.ok THEN Returned(got, "", w)
        ELSE IF ~PortTarget("packet_timeout", channel.local.port).ok
        THEN Returned(PortTarget("packet_timeout", channel.local.port), "", w)
        ELSE IF channel.local.port.kind = "Contract"
        THEN IF ~AsEndpoint(channel.local).ok \/ ~AsEndpoint(channel.remote).ok
             THEN Returned(Err("channel-id not set"), "", w)
             ELSE IF oracle = "err" THEN Returned(Err("contract error"), "", w)
             ELSE Returned(Ok(""), "Ok", w)
        ELSE Returned([timed EXCEPT !.v = ""], "Ok",
                      NoticeTransaction(w, chain, "packet_timeout", timed))

\* IbcApp::incoming_packet
IbcAppIncomingPacket(w, chain, packet, oracle) ==
    CASE packet.type = "AckPacket" -> IbcAppPacketAck(w, chain, packet, oracle)
      [] packet.type = "OutgoingPacket" -> IbcAppPacketReceive(w, chain, packet, oracle)
      [] packet.type = "OutgoinPacketRaw" ->
            LET got == ChannelsGetStr(w.channels[chain], packet.src_channel)
                full == IntoFullPacket(packet, got.v)
            IN  IF ~got.ok THEN Returned(got, "", w)
                ELSE IF ~full.ok THEN Returned(full, "", w)
                ELSE IbcAppPacketReceive(w, chain, full.v, oracle)
      [] packet.type = "Timeout" -> IbcAppPacketTimeout(w, chain, packet, oracle)
      [] OTHER -> Returned(Panic("Close channel is unimplemented"), "", w)

----------------------------------------------------------------------------
(* ecosystem.rs: relaying                                                  *)

\* Ecosystem::relay_packet
EcosystemRelayPacket(w, chain_id, packet_id, oracle) ==
    IF ~GetApp(chain_id) THEN Returned(Err("App not found"), "", w)
    ELSE
    LET packet == GetPendingPacket(w.store[chain_id].pending, packet_id)
        channel_info == ChannelsGetStr(w.channels[chain_id], GetLocalChannelId(packet.v))
        dest == channel_info.v.remote.chain_id
        response == IbcAppIncomingPacket(w, dest, packet.v, oracle)
    IN  IF ~packet.ok THEN Returned(packet, "", w)
        ELSE IF ~channel_info.ok THEN Returned(channel_info, "", w)
        ELSE IF ~GetApp(dest) THEN Returned(Err("App not found"), "", w)
        ELSE IF ~response.ret.ok THEN response
        ELSE Returned(response.ret, response.may,
                 [response.w EXCEPT !.store[chain_id].pending = RemovePacket(@, packet_id)])

\* Ecosystem::relay_next_packet
EcosystemRelayNextPacket(w, chain_id, oracle) ==
    IF ~GetApp(chain_id) THEN Returned(Err("App not found"), "", w)
    ELSE
    LET packet_id == GetNextPendingPacket(w.store[chain_id].pending)
    IN  IF ~packet_id.ok THEN Returned(packet_id, "", w)
        ELSE EcosystemRelayPacket(w, chain_id, packet_id.v, oracle)

\* The `for` loop of Ecosystem::relay_all_packets: the first chain, in key
\* order, that has pending packets; <<>> when the loop ends without a break.
\* A scan that looks at one chain only, the one at position i
FirstPendingOnlyAt(w, i) ==
    IF i <= Len(ChainOrder) /\ SomePendingPackets(w.store[ChainOrder[i]].pending)
    THEN <<ChainOrder[i]>>
    ELSE <<>>

RECURSIVE FirstPendingFrom(_, _)
FirstPendingFrom(w, i) ==
    IF i > Len(ChainOrder) THEN <<>>
    ELSE IF SomePendingPackets(w.store[ChainOrder[i]].pending) THEN <<ChainOrder[i]>>
    ELSE FirstPendingFrom(w, i + 1)

FirstPending(w) == FirstPendingFrom(w, 1)

----------------------------------------------------------------------------
(* The state machine.  The variables hold the world piecewise.             *)

W ==
    [channels |-> channels, sequence |-> sequence, calls |-> <<>>, txs |-> <<>>,
     mid |-> <<>>,
     store |-> [c \in Chains |->
                  [pending |-> pending[c], bank |-> bank[c], db |-> ics20db[c]]]]

Commit(w) ==
    /\ channels' = w.channels
    /\ sequence' = w.sequence
    /\ pending' = [c \in Chains |-> w.store[c].pending]
    /\ bank' = [c \in Chains |-> w.store[c].bank]
    /\ ics20db' = [c \in Chains |-> w.store[c].db]

NoPending == \A c \in Chains : DOMAIN pending[c] = {}

Called(op, ret, arg, out) ==
    [op |-> op, ret |-> ret, results |-> <<>>, arg |-> arg, out |-> out]

Nothing == [none |-> TRUE]

\* The native denomination each chain's user is funded with.
NativeDenom(chain) == <<"u" \o chain>>

InitialBalance == MaxAmount

Init ==
    /\ channels = [c \in Chains |-> <<>>]
    /\ sequence = <<>>
    /\ pending = [c \in Chains |-> <<>>]
    /\ bank = [c \in Chains |->
                 SetBalance(<<>>, User(c), NativeDenom(c), InitialBalance)]
    /\ ics20db = [c \in Chains |-> <<>>]
    /\ pc = "idle"
    /\ res = <<>>
    /\ last = Called("new", Ok(""), Nothing, Nothing)
    /\ nsent = 0
    /\ probe = [at |-> <<>>, log |-> <<>>, top |-> [c \in Chains |-> 0]]
    /\ builder = WithIbcApp(AppBuilderNew, Ics20App)

\* A call of Ecosystem::open_ibc_channel
OpenIbcChannel(inputs) ==
    /\ pc = "idle"
    /\ Len(sequence) < MaxChannels
    /\ \E i \in inputs :
       \E r \in {EcosystemOpenIbcChannel(
                     channels, Len(sequence) + 1,
                     IbcChannelCreator(i.port_1, "version-1", i.chain_1),
                     IbcChannelCreator(i.port_2, "version-2", i.chain_2), i.failAt)} :
             /\ channels' = r.ch
             /\ sequence' = Append(sequence, 0)
             /\ last' = Called("open_ibc_channel",
                               IF r.ok THEN Ok("") ELSE Err(""),
                               [chain_1 |-> i.chain_1, chain_2 |-> i.chain_2,
                                port_1 |-> i.port_1, port_2 |-> i.port_2,
                                failAt |-> i.failAt,
                                channel_id_1 |-> ChannelsNextKey(channels[i.chain_1]),
                                channel_id_2 |-> ChannelsNextKey(channels[i.chain_2])],
                               [ev |-> r.ev])
    /\ UNCHANGED <<pending, bank, ics20db, pc, res, nsent, probe, builder>>

----------------------------------------------------------------------------
(* Messages a test executes on a chain, the user of the chain signing.     *)

TransferMsg(channel_id, denom, amount, to_address, timeout) ==
    [type |-> "Transfer", channel_id |-> channel_id,
     amount |-> [denom |-> denom, amount |-> amount],
     to_address |-> to_address, memo |-> "", timeout |-> timeout, data |-> OpaqueData]

SendPacketMsg(channel_id, data, timeout) ==
    [type |-> "SendPacket", channel_id |-> channel_id,
     amount |-> [denom |-> <<>>, amount |-> 0],
     to_address |-> "", memo |-> "", timeout |-> timeout, data |-> data]

CloseChannelMsg(channel_id) ==
    [type |-> "CloseChannel", channel_id |-> channel_id,
     amount |-> [denom |-> <<>>, amount |-> 0],
     to_address |-> "", memo |-> "", timeout |-> IbcTimeout(0, 0), data |-> OpaqueData]

MsgTransfer(source_channel, denom, amount, receiver, timeout) ==
    [type |-> "MsgTransfer", source_port |-> "transfer", source_channel |-> source_channel,
     token |-> [denom |-> denom, amount |-> Uint128ToString(amount)],
     receiver |-> receiver, memo |-> "",
     timeout_height |-> timeout.height, timeout_timestamp |-> timeout.nanos]

\* The denominations an address holds
Held(b, addr) == {k[2] : k \in {x \in DOMAIN b : x[1] = addr}}

Receivers == {User(c) : c \in Chains}

\* The messages of the given types that the user of `chain` can build for a
\* channel of the chain.
Messages(chain, channel_id, types, amounts, timeouts) ==
    LET coins == Held(bank[chain], User(chain)) \X amounts
    IN  UNION {
          IF "Transfer" \in types
          THEN {TransferMsg(channel_id, c[1], c[2], r, t) :
                    c \in coins, r \in Receivers, t \in timeouts}
          ELSE {},
          IF "MsgTransfer" \in types
          THEN {MsgTransfer(channel_id, c[1], c[2], r, t) :
                    c \in coins, r \in Receivers, t \in timeouts}
          ELSE {},
          IF "SendPacket" \in types
          THEN {SendPacketMsg(channel_id, OpaqueData, t) : t \in timeouts}
          ELSE {},
          IF "CloseChannel" \in types THEN {CloseChannelMsg(channel_id)} ELSE {} }

\* History: the transfer whose funds the application took, filed under the
\* ledger key of its packet.
Sent(chain, msg) ==
    LET coin == IF msg.type = "MsgTransfer"
                THEN [denom |-> msg.token.denom, amount |-> Uint128FromStr(msg.token.amount).v]
                ELSE msg.amount
    IN  [chain |-> chain, sender |-> User(chain), denom |-> coin.denom,
         amount |-> coin.amount,
         before |-> Balance(bank[chain], User(chain), coin.denom),
         receiver |-> IF msg.type = "MsgTransfer" THEN msg.receiver ELSE msg.to_address,
         stargate |-> msg.type = "MsgTransfer",
         channel_id |-> IF msg.type = "MsgTransfer" THEN msg.source_channel
                        ELSE msg.channel_id,
         drained |-> NoPending]

\* History: the highest key each chain's ledger has held so far
Top(w) ==
    [c \in Chains |->
        IF DOMAIN w.store[c].pending = {} THEN probe.top[c]
        ELSE IF SetMax(DOMAIN w.store[c].pending) > probe.top[c]
        THEN SetMax(DOMAIN w.store[c].pending)
        ELSE probe.top[c]]

\* A call of App::execute with an IbcMsg or with a stargate MsgTransfer
Execute(types, amounts, timeouts) ==
    /\ pc = "idle"
    /\ nsent < MaxSends
    /\ \E chain \in Chains :
       \E n \in DOMAIN channels[chain] :
       \E msg \in Messages(chain, AsChannelString(n), types, amounts, timeouts) :
       \E r \in {IF msg.type = "MsgTransfer"
                 THEN AppExecuteStargate(W, chain, User(chain), msg)
                 ELSE AppExecuteIbc(W, chain, User(chain), msg)} :
         LET key == NewKey(pending[chain])
             took == r.ret.ok /\ r.w.store[chain].bank # bank[chain]
         IN  /\ Commit(r.w)
             /\ last' = Called("execute", r.ret, [chain |-> chain, msg |-> msg],
                               [key |-> key, top |-> probe.top[chain]])
             /\ probe' = IF took
                         THEN [at |-> Put(probe.at, <<chain, key>>, Sent(chain, msg)),
                               log |-> Append(probe.log, Sent(chain, msg)),
                               top |-> Top(r.w)]
                         ELSE [probe EXCEPT !.top = Top(r.w)]
    /\ nsent' = nsent + 1
    /\ UNCHANGED <<pc, res, builder>>

----------------------------------------------------------------------------
(* Relaying.  relay_all_packets runs as a loop of relay_next_packet calls:  *)
(* `pc` is "relaying" between its first scan and its return, and nothing    *)
(* else runs meanwhile (the call is synchronous).                          *)

Oracles == {"ack", "noack", "err"}

\* What one relay_packet call did, for the history: the packet and where it
\* went, the packets the destination filed, the tracked transfer it carried
\* and what the sender of that transfer got back.
Relayed(chain, key, r) ==
    LET packet == pending[chain][key]
        dest == channels[chain][AsChannelNumber(GetLocalChannelId(packet)).v].remote.chain_id
        filed == IF r.ret.ok
                 THEN UNION {{<<c, k>> : k \in DOMAIN r.w.store[c].pending
                                                  \ DOMAIN pending[c]} : c \in Chains}
                 ELSE {}
        sent == IF <<chain, key>> \in DOMAIN probe.at THEN <<probe.at[<<chain, key>>]>> ELSE <<>>
    IN  [chain |-> chain, key |-> key, packet |-> packet, dest |-> dest, may |-> r.may,
         calls |-> r.w.calls, txs |-> r.w.txs,
         removed |-> r.ret.ok, filed |-> filed, sent |-> sent,
         refund |-> IF sent = <<>> THEN 0
                    ELSE Balance(r.w.store[sent[1].chain].bank, sent[1].sender, sent[1].denom)
                         - Balance(bank[sent[1].chain], sent[1].sender, sent[1].denom),
         minted |-> [c \in Chains |->
                       {x \in DOMAIN r.w.store[c].bank :
                           r.w.store[c].bank[x] > Balance(bank[c], x[1], x[2])}]]

\* The history follows the packet: from the ledger it left to the
\* acknowledgement or timeout filed for it.
Follow(chain, key, r, out) ==
    LET rest == Drop(probe.at, <<chain, key>>)
    IN  IF ~r.ret.ok THEN probe.at
        ELSE IF out.sent # <<>> /\ out.filed # {}
                /\ out.packet.type \in {"OutgoingPacket", "OutgoinPacketRaw"}
        THEN Put(rest, CHOOSE f \in out.filed : TRUE, out.sent[1])
        ELSE rest

\* A call of Ecosystem::relay_packet
RelayPacket ==
    /\ pc = "idle"
    /\ \E chain \in Chains : \E key \in DOMAIN pending[chain] : \E oracle \in Oracles :
       \E r \in {EcosystemRelayPacket(W, chain, key, oracle)} :
       \E out \in {Relayed(chain, key, r)} :
             /\ Commit(r.w)
             /\ last' = Called("relay_packet", [r.ret EXCEPT !.v = r.may],
                               [chain |-> chain, key |-> key], out)
             /\ probe' = [probe EXCEPT !.at = Follow(chain, key, r, out), !.top = Top(r.w)]
    /\ UNCHANGED <<pc, res, nsent, builder>>

\* relay_all_packets is called: `res` is empty, the first scan is next
RelayAllPackets ==
    /\ pc = "idle"
    /\ pc' = "relaying"
    /\ res' = <<>>
    /\ last' = Called("relay_all_packets", Ok(""), [at |-> "call"], Nothing)
    /\ UNCHANGED <<channels, sequence, pending, bank, ics20db, nsent, probe, builder>>

\* One pass of the while loop that finds a chain with pending packets:
\* relay_next_packet on it, then either push and scan again, or `?` returns
\* the error.
RelayAllStep ==
    /\ pc = "relaying"
    /\ FirstPending(W) # <<>>
    /\ \E oracle \in Oracles :
       \E chain \in {FirstPending(W)[1]} :
       \E packet_id \in {GetNextPendingPacket(pending[chain])} :
       \E r \in {EcosystemRelayNextPacket(W, chain, oracle)} :
       \E out \in {IF packet_id.ok THEN Relayed(chain, packet_id.v, r) ELSE Nothing} :
             /\ Commit(r.w)
             /\ probe' = IF packet_id.ok
                         THEN [probe EXCEPT !.at = Follow(chain, packet_id.v, r, out),
                                            !.top = Top(r.w)]
                         ELSE probe
             /\ IF r.ret.ok
                THEN /\ res' = Append(res, r.may)
                     /\ pc' = "relaying"
                     /\ last' = Called("relay_next_packet", [r.ret EXCEPT !.v = r.may],
                                       [chain |-> chain, key |-> packet_id.v], out)
                ELSE /\ res' = <<>>
                     /\ pc' = "idle"
                     /\ last' = Called("relay_all_packets", r.ret, [at |-> "return"], out)
    /\ UNCHANGED <<nsent, builder>>

\* A full scan found no pending packet: relay_all_packets returns Ok(res)
RelayAllReturn ==
    /\ pc = "relaying"
    /\ FirstPending(W) = <<>>
    /\ pc' = "idle"
    /\ res' = <<>>
    /\ last' = [Called("relay_all_packets", Ok(""), [at |-> "return"], Nothing)
                    EXCEPT !.results = res]
    /\ UNCHANGED <<channels, sequence, pending, bank, ics20db, nsent, probe, builder>>

----------------------------------------------------------------------------
(* The specification: every call a test can make, on small inputs.         *)

Port(kind) == IF kind = "Module" THEN Ics20Port ELSE ContractPort

OpenInputs ==
    {[chain_1 |-> c[1], chain_2 |-> c[2], port_1 |-> Port(k), port_2 |-> Port(k),
      failAt |-> 0] :
        c \in {<<"a", "b">>}, k \in {"Module", "Contract"}}

Timeouts == {IbcTimeout(0, 3), IbcTimeout(0, 1)}

Open == OpenIbcChannel(OpenInputs)
Send == Execute({"Transfer", "SendPacket", "CloseChannel"}, {1}, Timeouts)

Next ==
    \/ Open
    \/ Send
    \/ RelayPacket
    \/ RelayAllPackets
    \/ RelayAllStep
    \/ RelayAllReturn

Spec == Init /\ [][Next]_vars

----------------------------------------------------------------------------
(* The handshake alone: every pair of chains (a chain with itself too),     *)
(* every pair of ports, a contract's handler failing at any of the six      *)
(* steps or at none.                                                        *)

AllOpenInputs ==
    {[chain_1 |-> c1, chain_2 |-> c2, port_1 |-> p1, port_2 |-> p2, failAt |-> f] :
        c1 \in Chains, c2 \in Chains, p1 \in Ports, p2 \in Ports, f \in 0..6}

OpenAny == OpenIbcChannel(AllOpenInputs)

HandshakeNext == OpenAny

HandshakeSpec == Init /\ [][HandshakeNext]_vars

\* The two records the last open_ibc_channel call was about
Side1 == channels[last.arg.chain_1][last.arg.channel_id_1]
Side2 == channels[last.arg.chain_2][last.arg.channel_id_2]

\* C1: after open_ibc_channel returns Ok, each of the two chains holds the
\* record of the new channel, both records are Connected, and each record's
\* remote channel id is the other record's local channel id, whatever was
\* opened (or left half-opened) on either chain before.
C1_OpenConnectsBothSides ==
    (last.op = "open_ibc_channel" /\ last.ret.ok) =>
        /\ last.arg.channel_id_1 \in DOMAIN channels[last.arg.chain_1]
        /\ last.arg.channel_id_2 \in DOMAIN channels[last.arg.chain_2]
        /\ Side1.status = "Connected"
        /\ Side2.status = "Connected"
        /\ Side1.local.chain_id = last.arg.chain_1
        /\ Side2.local.chain_id = last.arg.chain_2
        /\ Side1.remote.chain_id = last.arg.chain_2
        /\ Side2.remote.chain_id = last.arg.chain_1
        /\ Side1.remote.channel_id = Side2.local.channel_id
        /\ Side2.remote.channel_id = Side1.local.channel_id
        /\ Side1.local.channel_id = <<last.arg.channel_id_1>>
        /\ Side2.local.channel_id = <<last.arg.channel_id_2>>

\* An open that returned Ok on two chains that already held a different
\* number of records: the two ids of the new channel differ.
C1_Witness ==
    /\ last.op = "open_ibc_channel"
    /\ last.ret.ok
    /\ last.arg.channel_id_1 # last.arg.channel_id_2
    /\ Side1.status = "Connected"

----------------------------------------------------------------------------
(* The relay loop                                                          *)

\* The position of a chain id in the order of the chain ids
Rank(c) == CHOOSE i \in DOMAIN ChainOrder : ChainOrder[i] = c

NonEmpty == {c \in Chains : DOMAIN pending[c] # {}}

\* Every packet but the one under <<c, k>> stays in its ledger as it is
OnlyRemoves(c, k) ==
    \A d \in Chains : \A j \in DOMAIN pending[d] :
        <<d, j>> # <<c, k>> => (j \in DOMAIN pending'[d] /\ pending'[d][j] = pending[d][j])

\* C2: inside relay_all_packets every step looks at the chains in the order
\* of their ids; if some ledger is non-empty it relays exactly one packet,
\* the lowest key of the first non-empty chain, pushes that step's outcome
\* at the end of the result list and scans again from the first chain (or
\* returns that step's error); only when every ledger is empty does it
\* return, and what it returns is the result list.
C2_RelayAllScanOrder ==
    [][pc = "relaying" =>
         IF NonEmpty = {}
         THEN /\ pc' = "idle"
              /\ last'.op = "relay_all_packets" /\ last'.ret.ok /\ last'.results = res
              /\ pending' = pending
         ELSE LET c == CHOOSE x \in NonEmpty : \A y \in NonEmpty : Rank(x) <= Rank(y)
                  k == CHOOSE x \in DOMAIN pending[c] : \A y \in DOMAIN pending[c] : x <= y
              IN  \/ /\ pc' = "relaying"
                     /\ last'.op = "relay_next_packet"
                     /\ last'.arg = [chain |-> c, key |-> k]
                     /\ k \notin DOMAIN pending'[c]
                     /\ OnlyRemoves(c, k)
                     /\ Len(res') = Len(res) + 1
                     /\ SubSeq(res', 1, Len(res)) = res
                     /\ res'[Len(res')] = last'.out.may
                  \/ /\ pc' = "idle"
                     /\ last'.op = "relay_all_packets" /\ ~last'.ret.ok
                     /\ pending' = pending
    ]_vars

\* The second step of a run served chain a again, key 2, although chain b
\* had a packet pending by then.
C2_Witness ==
    /\ pc = "relaying"
    /\ last.op = "relay_next_packet"
    /\ last.arg = [chain |-> "a", key |-> 2]
    /\ Len(res) = 2
    /\ DOMAIN pending["b"] # {}

\* What every pass of the while loop does to `pc` and `res`, whichever
\* packet it relays: it pushes one outcome and scans again, or it returns.
\* From a state inside the call a pass is always possible (RelayAllStep or
\* RelayAllReturn is enabled) and nothing but a pass can happen.
LoopPass ==
    /\ pc = "relaying"
    /\ \/ pc' = "relaying" /\ res' \in {Append(res, may) : may \in {"Ok", "Err"}}
       \/ pc' = "idle" /\ res' = <<>>

\* The relay loop under its scheduling: relay_all_packets is a loop of a
\* sequential program, it does not stall between two passes.
FairSpec == Init /\ [][Next]_vars /\ WF_<<pc, res>>(LoopPass)

\* Every port of every channel record is the ICS20 application
AllIcs20 ==
    \A c \in Chains : \A n \in DOMAIN channels[c] : IsIcs20(channels[c][n].local.port)

RelayOps == {"relay_packet", "relay_next_packet"}

\* C3: with ICS20 ports only, relay_all_packets, once called, returns; and
\* when it returns Ok no chain has a pending packet.
C3_RelayAllTerminates ==
    (AllIcs20 /\ pc = "relaying") ~>
        (pc = "idle" /\ last.op = "relay_all_packets" /\ (last.ret.ok => NoPending))

\* A run over ICS20 channels that relayed four packets, one of them timed
\* out or refused, and returned Ok.
C3_Witness ==
    /\ AllIcs20
    /\ pc = "idle"
    /\ last.op = "relay_all_packets" /\ last.ret.ok
    /\ Len(last.results) = 4
    /\ \E i \in 1..4 : last.results[i] = "Err"
    /\ NoPending

\* C4: relay_all_packets called when no chain has a pending packet returns
\* Ok with an empty result list, and neither the call nor the return changes
\* a ledger, a channel record, a sequence counter, a balance or a trace table.
C4_RelayAllIdempotentWhenDrained ==
    [][/\ (pc = "idle" /\ pc' = "relaying" /\ NoPending) =>
              (res' = <<>> /\ UNCHANGED <<channels, sequence, pending, bank, ics20db>>)
       /\ (pc = "relaying" /\ res = <<>> /\ NoPending) =>
              /\ pc' = "idle"
              /\ last'.op = "relay_all_packets" /\ last'.ret.ok /\ last'.results = <<>>
              /\ UNCHANGED <<channels, sequence, pending, bank, ics20db>>
    ]_vars

\* relay_all_packets returned an empty list on an ecosystem that had relayed
\* packets before and holds none now.
C4_Witness ==
    /\ pc = "idle"
    /\ last.op = "relay_all_packets" /\ last.arg = [at |-> "return"]
    /\ last.ret.ok /\ last.results = <<>>
    /\ NoPending
    /\ \E i \in DOMAIN sequence : sequence[i] > 0

\* The keys a ledger can come to use
Keys == 1..(2 * MaxSends)

----------------------------------------------------------------------------
(* Receives that fail                                                      *)

\* The last call relayed a packet (also when it then returned an error)
RelayedSomething ==
    /\ last.op \in {"relay_packet", "relay_next_packet", "relay_all_packets"}
    /\ "packet" \in DOMAIN last.out

\* The packet of the last relay is a transfer that reached the ICS20
\* application of the destination before its timeout and names a receiver
\* that is no address of the destination chain: the application refuses it.
RefusedByApplication ==
    /\ RelayedSomething
    /\ last.out.packet.type = "OutgoingPacket"
    /\ last.out.packet.data.kind = "ftpd"
    /\ last.out.packet.dest.port_id = "transfer"
    /\ last.out.packet.timeout \in {IbcTimeout(0, 3), IbcTimeout(3, 0)}
    /\ ~AddrValidate(last.out.dest, last.out.packet.data.receiver)

\* C6: relaying a packet that the destination application refuses returns Ok
\* with a negative outcome, not an error; exactly one packet is filed, on the
\* destination chain, an acknowledgement of the relayed packet marked
\* unsuccessful; the relayed packet has left the source ledger; and inside
\* relay_all_packets the loop goes on with the next scan.
C6_FailedReceiveDoesNotAbort ==
    RefusedByApplication =>
        /\ last.op # "relay_all_packets"
        /\ last.ret.ok
        /\ last.out.may = "Err"
        /\ last.op = "relay_next_packet" => (pc = "relaying" /\ res[Len(res)] = "Err")
        /\ last.out.removed
        /\ last.out.key \notin DOMAIN pending[last.out.chain]
        /\ Cardinality(last.out.filed) = 1
        /\ \A f \in last.out.filed :
              /\ f[1] = last.out.dest
              /\ pending[f[1]][f[2]].type = "AckPacket"
              /\ ~pending[f[1]][f[2]].success
              /\ pending[f[1]][f[2]].ack = AckErr
              /\ pending[f[1]][f[2]].original_packet.data = last.out.packet.data

\* Inside relay_all_packets the first packet was refused by the destination
\* application and another packet is still waiting on the source chain.
C6_Witness ==
    /\ RefusedByApplication
    /\ last.op = "relay_next_packet"
    /\ pc = "relaying"
    /\ Len(res) = 1
    /\ DOMAIN pending["a"] # {}
    /\ DOMAIN pending["b"] # {}

----------------------------------------------------------------------------
(* Token transfers between ICS20 ports.  A chain opened with itself leaves  *)
(* a connected record behind (the call returns an error when the shared     *)
(* record is confirmed a second time), so that the next channel gets        *)
(* different ids on its two sides.  Transfers go out as IbcMsg::Transfer or *)
(* as a stargate MsgTransfer, to a receiver of either chain, with a timeout *)
(* in the future.                                                           *)

TransferOpenInputs ==
    {[chain_1 |-> c[1], chain_2 |-> c[2], port_1 |-> Ics20Port, port_2 |-> Ics20Port,
      failAt |-> 0] : c \in {<<"a", "b">>, <<"b", "b">>}}

OpenTransfer == OpenIbcChannel(TransferOpenInputs)

SendTransfer == Execute({"Transfer", "MsgTransfer"}, 1..MaxAmount, {IbcTimeout(0, 3)})

TransferNext ==
    \/ OpenTransfer
    \/ SendTransfer
    \/ RelayAllPackets
    \/ RelayAllStep
    \/ RelayAllReturn

TransferSpec == Init /\ [][TransferNext]_vars

(* The same with IbcMsg::Transfer as the only message.                     *)

SendIbcTransfer == Execute({"Transfer"}, 1..MaxAmount, {IbcTimeout(0, 3)})

IbcTransferNext ==
    \/ OpenTransfer
    \/ SendIbcTransfer
    \/ RelayAllPackets
    \/ RelayAllStep
    \/ RelayAllReturn

IbcTransferSpec == Init /\ [][IbcTransferNext]_vars

(* Token transfers with every combination of a height and a timestamp       *)
(* timeout that is unset (0), elapsed (1) or in the future (3) at the       *)
(* destination's block (height 2, time 2).                                  *)

TimeoutOpenInputs ==
    {[chain_1 |-> "a", chain_2 |-> "b", port_1 |-> Ics20Port, port_2 |-> Ics20Port,
      failAt |-> 0]}

AllTimeouts == {IbcTimeout(h, n) : h \in {0, 1, 3}, n \in {0, 1, 3}}

OpenTimeout == OpenIbcChannel(TimeoutOpenInputs)

SendTimeout == Execute({"Transfer"}, {1}, AllTimeouts)

TimeoutNext ==
    \/ OpenTimeout
    \/ SendTimeout
    \/ RelayAllPackets
    \/ RelayAllStep
    \/ RelayAllReturn

TimeoutSpec == Init /\ [][TimeoutNext]_vars

----------------------------------------------------------------------------
(* Refused and timed-out transfers                                          *)

\* A relay call has just handled `last.out.packet`
RelayHandled ==
    \/ last.op \in {"relay_packet", "relay_next_packet"}
    \/ last.op = "relay_all_packets" /\ last.arg.at = "return" /\ ~last.ret.ok

\* The transfer is the latest one accepted and the ledgers were empty when it
\* was sent: nothing but its own packets has moved since.
Alone(sent) ==
    /\ sent.drained
    /\ probe.log[Len(probe.log)] = sent

IsVoucher(denom) == StartsWithSegment(denom, "ibc")

\* A relay call has just handled the negative acknowledgement of a tracked
\* token transfer.
NegativeAckRelayed ==
    /\ RelayHandled
    /\ last.out.packet.type = "AckPacket"
    /\ ~last.out.packet.success
    /\ last.out.sent # <<>>

\* C7: when the destination application refuses a token transfer (native, so
\* escrowed, or an ibc/ voucher, so burned), a negative acknowledgement is
\* filed, and the relay of that acknowledgement succeeds and gives the sender
\* back the amount sent in the denomination sent, so that (nothing else
\* having moved) the sender's balance of it is what it was before the send.
C7_FailedReceiveRestoresSender ==
    /\ (RefusedByApplication /\ last.out.sent # <<>>) =>
          \E f \in last.out.filed :
              /\ pending[f[1]][f[2]].type = "AckPacket"
              /\ ~pending[f[1]][f[2]].success
    /\ NegativeAckRelayed =>
          LET sent == last.out.sent[1]
          IN  /\ last.ret.ok
              /\ last.out.refund = sent.amount
              /\ Alone(sent) =>
                    Balance(bank[sent.chain], sent.sender, sent.denom) = sent.before

\* The same for native denominations only
C7_NativeRestored ==
    (NegativeAckRelayed /\ ~IsVoucher(last.out.sent[1].denom)) =>
          LET sent == last.out.sent[1]
          IN  /\ last.ret.ok
              /\ last.out.refund = sent.amount
              /\ Alone(sent) =>
                    Balance(bank[sent.chain], sent.sender, sent.denom) = sent.before

\* The negative acknowledgement of a refused native transfer was relayed
C7_NativeWitness ==
    /\ NegativeAckRelayed
    /\ ~IsVoucher(last.out.sent[1].denom)
    /\ Alone(last.out.sent[1])

\* The negative acknowledgement of a refused voucher transfer was relayed,
\* nothing else having moved since the send.
C7_VoucherWitness ==
    /\ NegativeAckRelayed
    /\ IsVoucher(last.out.sent[1].denom)
    /\ Alone(last.out.sent[1])

\* The declared timeout has elapsed at the block: a timestamp or a height
\* that is set lies in the past.
Elapsed(timeout, block) ==
    \/ timeout.nanos # 0 /\ block.time > timeout.nanos
    \/ timeout.height # 0 /\ block.height > timeout.height

\* A relay call has just handled a token transfer whose timeout had elapsed
\* on the destination chain.
ElapsedTransferRelayed ==
    /\ RelayHandled
    /\ last.out.packet.type \in {"OutgoingPacket", "OutgoinPacketRaw"}
    /\ last.out.packet.data.kind = "ftpd"
    /\ last.out.sent # <<>>
    /\ Elapsed(last.out.packet.timeout, BlockInfo(last.out.dest))

\* A relay call has just handled what the destination filed for such a
\* transfer
ElapsedNoticeRelayed ==
    /\ RelayHandled
    /\ last.out.packet.type \in {"Timeout", "AckPacket"}
    /\ last.out.sent # <<>>
    /\ Elapsed(last.out.packet.original_packet.timeout, BlockInfo(last.out.chain))

\* C8: relaying a transfer whose declared timeout (timestamp only, height
\* only, or both) has elapsed on the destination chain increases no balance
\* there and files a packet for the source; relaying that packet succeeds and
\* gives the sender back the amount sent, so that (nothing else having moved)
\* the sender's balance is what it was before the send.
C8_ElapsedTimeoutReverts ==
    /\ ElapsedTransferRelayed =>
          /\ last.ret.ok
          /\ \A c \in Chains : last.out.minted[c] = {}
          /\ last.out.filed # {}
    /\ ElapsedNoticeRelayed =>
          LET sent == last.out.sent[1]
          IN  /\ last.ret.ok
              /\ last.out.refund = sent.amount
              /\ Alone(sent) =>
                    Balance(bank[sent.chain], sent.sender, sent.denom) = sent.before

\* A native transfer declaring both a height and a timestamp, both elapsed,
\* has been relayed.
C8_BothElapsedWitness ==
    /\ ElapsedTransferRelayed
    /\ last.out.packet.timeout = IbcTimeout(1, 1)
    /\ ~IsVoucher(last.out.sent[1].denom)

\* The same statement for native transfers that declare one timeout only
C8_SingleTimeoutReverts ==
    /\ (/\ ElapsedTransferRelayed
        /\ 0 \in {last.out.packet.timeout.height, last.out.packet.timeout.nanos}
        /\ ~IsVoucher(last.out.sent[1].denom)) =>
          /\ last.ret.ok
          /\ \A c \in Chains : last.out.minted[c] = {}
          /\ last.out.filed # {}
    /\ (/\ ElapsedNoticeRelayed
        /\ 0 \in {last.out.packet.original_packet.timeout.height,
                  last.out.packet.original_packet.timeout.nanos}
        /\ ~IsVoucher(last.out.sent[1].denom)) =>
          LET sent == last.out.sent[1]
          IN  /\ last.ret.ok
              /\ last.out.refund = sent.amount
              /\ Alone(sent) =>
                    Balance(bank[sent.chain], sent.sender, sent.denom) = sent.before

C8_SingleTimeoutWitness ==
    /\ ElapsedNoticeRelayed
    /\ last.out.packet.original_packet.timeout = IbcTimeout(1, 0)
    /\ Alone(last.out.sent[1])

----------------------------------------------------------------------------
(* First hop and round trip                                                 *)

\* relay_all_packets has just returned Ok and no ledger holds a packet
Drained ==
    /\ last.op = "relay_all_packets"
    /\ last.arg.at = "return"
    /\ last.ret.ok
    /\ NoPending

\* The sender's record of the channel a transfer went out on
ChannelOf(sent) == channels[sent.chain][AsChannelNumber(sent.channel_id).v]

\* The denomination the destination of the transfer gives to the sent one
\* when it arrives from elsewhere: the hash of <port>/<channel>/<denom> with
\* the destination's own side of the channel.
DerivedDenom(sent) ==
    ComputeIbcDenomFromTrace(
        <<PortName(ChannelOf(sent).remote.port),
          AsChannelString(ChannelOf(sent).remote.channel_id[1])>> \o sent.denom)

\* The history is a round trip: a native amount went from chain 1 to a user
\* of another chain 2 and was relayed; then that user sent all of what it got
\* back over the same channel to the first sender, and relay_all_packets has
\* drained the ledgers again.
RoundTrip ==
    /\ Drained
    /\ Len(probe.log) = 2
    /\ LET out == probe.log[1]
           back == probe.log[2]
       IN  /\ out.denom = NativeDenom(out.chain)
           /\ out.drained
           /\ ChannelOf(out).remote.chain_id # out.chain
           /\ back.chain = ChannelOf(out).remote.chain_id
           /\ back.sender = out.receiver
           /\ back.channel_id = AsChannelString(ChannelOf(out).remote.channel_id[1])
           /\ back.denom = DerivedDenom(out)
           /\ back.amount = out.amount
           /\ back.before = out.amount
           /\ back.receiver = out.sender
           /\ back.drained

\* C9: after a round trip (amount A of native D from chain 1 to chain 2,
\* relay, the full received balance back, relay) the sender on chain 1 holds
\* of D what it held before the first send and chain 2's supply of the
\* derived denomination is zero, whatever the amount and whatever ids the
\* channel has on its two sides.
C9_RoundTripRestores ==
    RoundTrip =>
        LET out == probe.log[1]
            back == probe.log[2]
        IN  /\ Balance(bank[out.chain], out.sender, out.denom) = out.before
            /\ Supply(bank[back.chain], back.denom) = 0

\* A round trip of the whole balance over a channel whose ids differ on the
\* two sides
C9_Witness ==
    /\ RoundTrip
    /\ probe.log[1].amount = MaxAmount
    /\ probe.log[1].channel_id # probe.log[2].channel_id

\* The history is a first hop: a sender that held exactly the amount sent of
\* its chain's native denomination has made the only transfer so far, to an
\* address of the chain at the other end of the channel, and
\* relay_all_packets has drained the ledgers.
FirstHop ==
    /\ Drained
    /\ Len(probe.log) = 1
    /\ LET sent == probe.log[1]
       IN  /\ sent.denom = NativeDenom(sent.chain)
           /\ sent.before = sent.amount
           /\ ChannelOf(sent).remote.chain_id # sent.chain
           /\ AddrValidate(ChannelOf(sent).remote.chain_id, sent.receiver)

\* C10: after a first hop of amount A of native D from chain A to chain B
\* the sender holds 0 of D and the receiver holds, on chain B, A of the
\* denomination derived from <B-side port>/<B-side channel>/D.
C10_FirstHop ==
    FirstHop =>
        LET sent == probe.log[1]
        IN  /\ Balance(bank[sent.chain], sent.sender, sent.denom) = 0
            /\ Balance(bank[ChannelOf(sent).remote.chain_id], sent.receiver,
                       DerivedDenom(sent)) = sent.amount

\* A first hop over a channel whose ids differ on the two sides
C10_Witness ==
    /\ FirstHop
    /\ probe.log[1].channel_id
         # AsChannelString(ChannelOf(probe.log[1]).remote.channel_id[1])

\* A first hop sent as a stargate MsgTransfer over a channel with the same id
\* on both sides
C10_StargateWitness ==
    /\ FirstHop
    /\ probe.log[1].stargate
    /\ probe.log[1].channel_id
         = AsChannelString(ChannelOf(probe.log[1]).remote.channel_id[1])

\* The statement of C10 for channels with the same id on both sides
C10_FirstHopSameIds ==
    (/\ FirstHop
     /\ probe.log[1].channel_id
          = AsChannelString(ChannelOf(probe.log[1]).remote.channel_id[1])) =>
        LET sent == probe.log[1]
        IN  /\ Balance(bank[sent.chain], sent.sender, sent.denom) = 0
            /\ Balance(bank[ChannelOf(sent).remote.chain_id], sent.receiver,
                       DerivedDenom(sent)) = sent.amount

\* The statement of C9 for round trips whose first leg is a stargate
\* MsgTransfer
C9_StargateFirstLeg ==
    (RoundTrip /\ probe.log[1].stargate) =>
        Balance(bank[probe.log[1].chain], probe.log[1].sender, probe.log[1].denom)
            = probe.log[1].before

----------------------------------------------------------------------------
(* C11: relay_packet and the source ledger                                 *)

\* relay_packet on (chain, key) gets as far as the dispatch: the packet is
\* pending, its local channel is known on the source chain and the chain at
\* the other end exists.
Attempted(chain, key) ==
    /\ key \in DOMAIN pending[chain]
    /\ LET info == ChannelsGetStr(channels[chain], GetLocalChannelId(pending[chain][key]))
       IN  info.ok /\ GetApp(info.v.remote.chain_id)

\* The step is a finished relay_packet call on (chain, key) that did not panic
RelayCallOn(chain, key) ==
    /\ pc = "idle"
    /\ last'.op = "relay_packet"
    /\ last'.arg = [chain |-> chain, key |-> key]
    /\ ~last'.ret.panic

\* C11: once relay_packet has attempted the delivery of a packet, the packet
\* is no longer in the source chain's ledger, whether the dispatch on the
\* destination returned Ok or an error; and a packet leaves a ledger only in
\* the relay step that attempted its delivery.
C11_RelayRemovesPacket ==
    [][\A c \in Chains : \A k \in DOMAIN pending[c] :
          /\ (RelayCallOn(c, k) /\ Attempted(c, k)) => k \notin DOMAIN pending'[c]
          /\ k \notin DOMAIN pending'[c] =>
                /\ last'.op \in {"relay_packet", "relay_next_packet"}
                /\ last'.arg = [chain |-> c, key |-> k]
      ]_vars

\* relay_packet was called on an acknowledgement, the contract's ack entry
\* point returned an error, and the acknowledgement is still pending.
C11_Witness ==
    /\ last.op = "relay_packet"
    /\ ~last.ret.ok /\ ~last.ret.panic
    /\ last.out.packet.type = "AckPacket"
    /\ last.arg.key \in DOMAIN pending[last.arg.chain]
    /\ pending[last.arg.chain][last.arg.key] = last.out.packet

\* What the code does keep: a relay_packet call that returns Ok (the
\* MayResponse being Ok or Err) removes the packet, one that returns an error
\* leaves every ledger as it was, and a packet leaves a ledger only in the
\* relay step that attempted its delivery.
C11_RemovedOnlyWhenOk ==
    [][\A c \in Chains : \A k \in DOMAIN pending[c] :
          /\ (RelayCallOn(c, k) /\ Attempted(c, k)) =>
                IF last'.ret.ok THEN k \notin DOMAIN pending'[c]
                ELSE pending' = pending
          /\ k \notin DOMAIN pending'[c] =>
                /\ last'.op \in {"relay_packet", "relay_next_packet"}
                /\ last'.arg = [chain |-> c, key |-> k]
      ]_vars

----------------------------------------------------------------------------
(* C12: what one relay_packet call dispatches                               *)

RelayOpsOfOne == {"relay_packet", "relay_next_packet"}

\* The last call relayed an outgoing packet and returned Ok
OutgoingRelayed ==
    /\ last.op \in RelayOpsOfOne
    /\ last.ret.ok
    /\ last.out.packet.type \in {"OutgoingPacket", "OutgoinPacketRaw"}

\* The acknowledgements the receive of the last call yielded: the ledger
\* places of the AckPacket entries it filed.
YieldedAcks ==
    {f \in last.out.filed : pending[f[1]][f[2]].type = "AckPacket"}

Call(chain, path) == [chain |-> chain, path |-> path]

\* C12 as stated: one relay_packet call on an outgoing packet invokes the
\* receive path of the destination chain and, when the receive yields an
\* acknowledgement, the ack path of the source chain before it returns.
C12_ReceiveAndAckInOneStep ==
    (OutgoingRelayed /\ YieldedAcks # {}) =>
        last.out.calls = <<Call(last.out.dest, "packet_receive"),
                           Call(last.out.chain, "packet_ack")>>

\* C12 amended: the call invokes the receive path of the destination chain
\* and nothing else; an acknowledgement the receive yields is filed as one
\* AckPacket in the destination chain's ledger, naming the packet received;
\* the ack path runs on the source chain only in a relay call on that
\* AckPacket, and that call invokes nothing else.
C12_AckIsFiledThenRelayed ==
    /\ OutgoingRelayed =>
          /\ last.out.calls = <<Call(last.out.dest, "packet_receive")>>
          /\ Cardinality(YieldedAcks) <= 1
          /\ \A f \in YieldedAcks :
                /\ f[1] = last.out.dest
                /\ pending[f[1]][f[2]].original_packet.data = last.out.packet.data
    /\ (last.op \in RelayOpsOfOne /\ last.ret.ok) =>
          IF last.out.packet.type = "AckPacket"
          THEN last.out.calls = <<Call(last.out.dest, "packet_ack")>>
          ELSE \A i \in DOMAIN last.out.calls : last.out.calls[i].path # "packet_ack"

\* An outgoing packet was relayed from a to b, its receive yielded an
\* acknowledgement, and the acknowledgement is pending on b.
C12_Witness ==
    /\ OutgoingRelayed
    /\ last.out.chain = "a" /\ last.out.dest = "b"
    /\ YieldedAcks # {}

\* That acknowledgement was relayed in a later call, which ran the ack path
\* on the chain the packet came from.
C12_AckRelayedWitness ==
    /\ last.op \in RelayOpsOfOne /\ last.ret.ok
    /\ last.out.packet.type = "AckPacket"
    /\ last.out.calls = <<Call(last.out.dest, "packet_ack")>>

----------------------------------------------------------------------------
(* C13: IbcChannelStatus::to_next_status on every status                    *)

MaxCalls == 4

IbcChannelStatus == {"Created", "Opening", "Connected", "Closed"}

\* A channel between the ICS20 ports of a and b, as open_channel records it
\* on `chain`, in the given status.
WrapperInStatus(chain, status) ==
    LET other == IF chain = "a" THEN "b" ELSE "a"
        local == SetChannelId(IbcChannelCreator(Ics20Port, "version-1", chain), 0)
        remote == SetChannelId(IbcChannelCreator(Ics20Port, "version-2", other), 0)
    IN  [IbcChannelWrapperNew(local, remote, 1) EXCEPT !.status = status]

\* Both chains hold channel 0, each in any status of the enumeration
StatusInit ==
    /\ channels \in {[c \in Chains |-> ChannelsInsert(<<>>, 0, WrapperInStatus(c, st[c]))] :
                        st \in [Chains -> IbcChannelStatus]}
    /\ sequence = <<0>>
    /\ pending = [c \in Chains |-> <<>>]
    /\ bank = [c \in Chains |->
                 SetBalance(<<>>, User(c), NativeDenom(c), InitialBalance)]
    /\ ics20db = [c \in Chains |-> <<>>]
    /\ pc = "idle"
    /\ res = <<>>
    /\ last = Called("new", Ok(""), Nothing, Nothing)
    /\ nsent = 0
    /\ probe = [at |-> <<>>, log |-> <<>>, top |-> [c \in Chains |-> 0]]
    /\ builder = WithIbcApp(AppBuilderNew, Ics20App)

\* channel.status.to_next_status() on a channel of a chain: `*self` is
\* assigned in the two matching arms only, the other arm bails.
CallToNextStatus ==
    /\ pc = "idle"
    /\ nsent < MaxCalls
    /\ \E c \in Chains : \E n \in DOMAIN channels[c] :
       \E r \in {ToNextStatus(channels[c][n].status)} :
          /\ channels' = [channels EXCEPT ![c][n].status = IF r.ok THEN r.v ELSE @]
          /\ last' = Called("to_next_status", IF r.ok THEN Ok("") ELSE Err(r.v),
                            [chain |-> c, channel_id |-> n,
                             status |-> channels[c][n].status], Nothing)
    /\ nsent' = nsent + 1
    /\ UNCHANGED <<sequence, pending, bank, ics20db, pc, res, probe, builder>>

StatusNext == CallToNextStatus

StatusSpec == StatusInit /\ [][StatusNext]_vars

\* C13: to_next_status moves Created to Opening and Opening to Connected and
\* returns Ok; on Connected and on Closed it returns an error and the status
\* stays what it was.
C13_ToNextStatus ==
    last.op = "to_next_status" =>
        LET before == last.arg.status
            after == channels[last.arg.chain][last.arg.channel_id].status
        IN  CASE before = "Created" -> last.ret.ok /\ after = "Opening"
              [] before = "Opening" -> last.ret.ok /\ after = "Connected"
              [] OTHER -> ~last.ret.ok /\ ~last.ret.panic /\ after = before

\* to_next_status was called on a Closed status and on a Connected status,
\* and the last call, on one of them, failed.
C13_Witness ==
    /\ last.op = "to_next_status"
    /\ last.arg.status \in {"Connected", "Closed"}
    /\ ~last.ret.ok
    /\ {channels[c][0].status : c \in Chains} = {"Connected", "Closed"}
    /\ nsent = MaxCalls

----------------------------------------------------------------------------
(* C14: the status of a channel record over opens, sends and relays        *)

\* Handshakes between a and b and of b with itself, over ICS20 ports or over
\* contracts; a contract's handler may fail at the first confirm, which
\* leaves both records Opening.
LifecycleOpenInputs ==
    {[chain_1 |-> c[1], chain_2 |-> c[2], port_1 |-> Port(k), port_2 |-> Port(k),
      failAt |-> f] :
        c \in {<<"a", "b">>, <<"b", "b">>}, k \in {"Module", "Contract"}, f \in {0, 5}}

OpenLifecycle == OpenIbcChannel(LifecycleOpenInputs)

\* Sends of every kind of IbcMsg, CloseChannel too
SendAnyIbcMsg == Execute({"Transfer", "SendPacket", "CloseChannel"}, {1}, {IbcTimeout(0, 3)})

LifecycleNext ==
    \/ OpenLifecycle
    \/ SendAnyIbcMsg
    \/ RelayPacket
    \/ RelayAllPackets
    \/ RelayAllStep
    \/ RelayAllReturn

LifecycleSpec == Init /\ [][LifecycleNext]_vars

StatusRank(status) ==
    CASE status = "Created" -> 0
      [] status = "Opening" -> 1
      [] status = "Connected" -> 2
      [] status = "Closed" -> 3

NoChannelClosed ==
    \A c \in Chains : \A n \in DOMAIN channels[c] : channels[c][n].status # "Closed"

\* C14: no step leads to a state with a Closed channel record, and no step
\* removes a channel record or takes its status backwards.
C14_NeverClosedNeverBackwards ==
    [][/\ NoChannelClosed'
       /\ \A c \in Chains : \A n \in DOMAIN channels[c] :
             /\ n \in DOMAIN channels'[c]
             /\ StatusRank(channels'[c][n].status) >= StatusRank(channels[c][n].status)
      ]_vars

\* A CloseChannel message was accepted on a Connected channel, it was
\* relayed (the call did not return Ok), and the channel is Connected still.
C14_Witness ==
    /\ last.op = "relay_packet"
    /\ last.out.packet.type = "CloseChannel"
    /\ \A c \in Chains : DOMAIN channels[c] # {}
    /\ \A c \in Chains : \A n \in DOMAIN channels[c] : channels[c][n].status = "Connected"

\* A handshake stopped half way and left an Opening record, which a later
\* send and relay over it did not move.
C14_OpeningWitness ==
    /\ last.op = "relay_packet" /\ last.ret.ok
    /\ \E n \in DOMAIN channels[last.out.chain] :
          /\ AsChannelString(n) = GetLocalChannelId(last.out.packet)
          /\ channels[last.out.chain][n].status = "Opening"

----------------------------------------------------------------------------
(* C15: the order of the handshake events                                  *)

\* The six events of a complete handshake for the last open_ibc_channel call
ExpectedHandshake ==
    LET a == last.arg
        On(kind, side, cv) ==
            [kind |-> kind,
             chain |-> IF side = 1 THEN a.chain_1 ELSE a.chain_2,
             channel_id |-> IF side = 1 THEN <<a.channel_id_1>> ELSE <<a.channel_id_2>>,
             counterparty_version |-> cv]
    IN  <<On("open", 1, ""), On("open", 2, ""),
          On("connect_ack", 1, "version-2"), On("connect_ack", 2, "version-1"),
          On("connect_confirm", 1, ""), On("connect_confirm", 2, "")>>

\* The step at which the handler of the last call fails: a contract's entry
\* point fails at the step the call was given, an ICS20 handler never; 0 when
\* no step fails.
FailingStep ==
    LET a == last.arg
        port == IF a.failAt % 2 = 1 THEN a.port_1 ELSE a.port_2
    IN  IF a.failAt \in 1..6 /\ ~IsIcs20(port) THEN a.failAt ELSE 0

OpenedAcrossTwoChains ==
    last.op = "open_ibc_channel" /\ last.arg.chain_1 # last.arg.chain_2

C15_CompleteWitness ==
    /\ OpenedAcrossTwoChains
    /\ last.ret.ok
    /\ Len(last.out.ev) = 6
    /\ last.out.ev[4].kind = "connect_ack" /\ last.out.ev[4].counterparty_version = "version-1"

----------------------------------------------------------------------------
(* C16: who writes the shared sequence counter                             *)

\* The cell of the channel record that receives the packet of a relay call
ReceivingCell(out) ==
    channels[out.dest][AsChannelNumber(out.packet.dest.channel_id).v].sequence

\* The step is a relay call that handed an outgoing packet to the receive
\* path of the channel whose counter is cell i
ReceiveAttemptOn(i) ==
    /\ last'.op \in RelayOpsOfOne
    /\ last'.ret.ok
    /\ last'.out.packet.type = "OutgoingPacket"
    /\ ReceivingCell(last'.out) = i

\* ... and the receive was accepted: not refused as timed out, not failed in
\* the application
AcceptedReceiveOn(i) ==
    ReceiveAttemptOn(i) /\ last'.out.may = "Ok"

\* C16: a step adds one to a channel's counter when it is an accepted receive
\* on that channel, and leaves the counter alone otherwise (a receive refused
\* as timed out or failed in the application included).
C16_SequenceCountsAcceptedReceives ==
    [][\A i \in DOMAIN sequence :
          sequence'[i] = sequence[i] + (IF AcceptedReceiveOn(i) THEN 1 ELSE 0)
      ]_vars

\* A receive was refused as timed out, and the counter of its channel moved:
\* the Timeout packet filed for it carries the new value.
C16_Witness ==
    /\ last.op \in RelayOpsOfOne /\ last.ret.ok
    /\ last.out.packet.type = "OutgoingPacket"
    /\ last.out.may = "Err"
    /\ \E f \in last.out.filed :
          /\ pending[f[1]][f[2]].type = "Timeout"
          /\ pending[f[1]][f[2]].original_packet.sequence = sequence[ReceivingCell(last.out)]
          /\ sequence[ReceivingCell(last.out)] = 1

\* What the code keeps: the counter moves by one at every receive attempt,
\* whatever its outcome, and at no other step.
C16_SequenceCountsReceiveAttempts ==
    [][\A i \in DOMAIN sequence :
          sequence'[i] = sequence[i] + (IF ReceiveAttemptOn(i) THEN 1 ELSE 0)
      ]_vars

----------------------------------------------------------------------------
(* C17: the life of a channel's sequence counter                           *)

\* Two records are the two views of one channel: each one's remote is the
\* other one's local.
TwoViews(r1, r2) == r1.remote = r2.local /\ r2.remote = r1.local

\* The two views of a channel hold the same cell, so read the same value
SameCounterOnBothSides ==
    \A c1 \in Chains : \A n1 \in DOMAIN channels[c1] :
    \A c2 \in Chains : \A n2 \in DOMAIN channels[c2] :
        TwoViews(channels[c1][n1], channels[c2][n2]) =>
            /\ channels[c1][n1].sequence = channels[c2][n2].sequence
            /\ sequence[channels[c1][n1].sequence] = sequence[channels[c2][n2].sequence]

\* C17: a record that a step adds holds a counter that reads 0; a step never
\* lowers a counter, never drops one and never gives a record another
\* counter; and after every step the two views of a channel read the same
\* value.
C17_SequenceMonotoneAndShared ==
    [][/\ SameCounterOnBothSides'
       /\ \A i \in DOMAIN sequence :
             i \in DOMAIN sequence' /\ sequence'[i] >= sequence[i]
       /\ \A c \in Chains : \A n \in DOMAIN channels'[c] :
             IF n \in DOMAIN channels[c]
             THEN channels'[c][n].sequence = channels[c][n].sequence
             ELSE sequence'[channels'[c][n].sequence] = 0
      ]_vars

\* The first channel has counted two receives; a second channel was opened
\* after them and its two views read 0.
C17_Witness ==
    /\ last.op = "open_ibc_channel" /\ last.ret.ok
    /\ last.arg.chain_1 # last.arg.chain_2
    /\ TwoViews(Side1, Side2)
    /\ Side1.sequence = 2 /\ Side2.sequence = 2
    /\ sequence = <<2, 0>>

----------------------------------------------------------------------------
(* C18: the keys of the pending-packet ledger                              *)

\* The keys a step files on a chain
FiledKeys(c) == DOMAIN pending'[c] \ DOMAIN pending[c]

\* C18: a packet is filed under a key greater than every key the chain's
\* ledger has ever held, whatever was filed and removed before.
C18_KeysNeverReused ==
    [][\A c \in Chains : \A k \in FiledKeys(c) : k > probe.top[c]]_vars

\* A send was accepted and filed under a key the chain's ledger had held
\* before and lost to a relay.
C18_Witness ==
    /\ last.op = "execute" /\ last.ret.ok
    /\ last.out.key \in DOMAIN pending[last.arg.chain]
    /\ last.out.key <= last.out.top

\* What the code keeps: a packet is filed under a key greater than every key
\* the ledger holds at that moment.
C18_KeysAbovePending ==
    [][\A c \in Chains : \A k \in FiledKeys(c) :
          \A j \in DOMAIN pending[c] : k > j]_vars

----------------------------------------------------------------------------
(* middleware.rs: `impl IbcApplication for T: Middleware`.  A middleware     *)
(* wraps an inner IbcApplication; its hooks are code of the test that uses    *)
(* it, so what each hook returns is an input: the before hook Stop,          *)
(* Continue(event) or an error, the after hook Ok or an error, the innermost  *)
(* application Ok or an error.                                               *)

MaxDepth == 2

EventKinds ==
    {"handle_outgoing_packet", "packet_receive", "packet_ack",
     "packet_timeout", "open_channel", "channel_connect"}

\* The events a hook can be handed or can rewrite to
Events == {"e1", "e2"}

BeforeResults ==
    {[type |-> t, event |-> e] : t \in {"Continue"}, e \in Events}
        \cup {[type |-> t, event |-> ""] : t \in {"Stop", "Err"}}

Middlewares == [before : BeforeResults, after : {"Ok", "Err"}]

Stacks == UNION {[1..n -> Middlewares] : n \in 1..MaxDepth}

\* History: one hook or application invoked, and with what
Entry(level, hook, event, forwarded) ==
    [level |-> level, hook |-> hook, event |-> event, forwarded |-> forwarded]

\* The event the wrapped application is called with after Continue(next):
\* handle_outgoing_packet, packet_receive and packet_ack pass next_msg /
\* next_packet, packet_timeout, open_channel and channel_connect pass
\* msg.clone().
Forwarded(kind, event, next) ==
    IF kind \in {"handle_outgoing_packet", "packet_receive", "packet_ack"}
    THEN next
    ELSE event

\* An after hook that runs whatever the wrapped application returned
AfterRunsAlways(kind, inner_ok) == TRUE

\* The after hook runs once the wrapped application has returned: the
\* receive path hands it the InfallibleResult whatever it is, the other
\* paths return the wrapped application's error with `?` first.
AfterRuns(kind, inner_ok) == kind = "packet_receive" \/ inner_ok

\* The IbcApplication function `kind` of the middleware at position i of the
\* stack (the innermost application past the end), called with `event`.
\* The result is Ok or an error, with the responses merged into it and the
\* history of what was invoked.
RECURSIVE MiddlewareCall(_, _, _, _, _)
MiddlewareCall(stack, i, kind, event, app) ==
    IF i > Len(stack)
    THEN [ok |-> app = "Ok",
          v |-> IF app = "Ok" THEN <<[level |-> i, by |-> "target"]>> ELSE <<>>,
          trace |-> <<Entry(i, "target", event, event)>>]
    ELSE
    LET m == stack[i]
        before == <<Entry(i, "before", event, event)>>
        next == m.before.event
        inner == MiddlewareCall(stack, i + 1, kind, Forwarded(kind, event, next), app)
        after == <<Entry(i, "after", event, next)>>
    IN  CASE m.before.type = "Err" -> [ok |-> FALSE, v |-> <<>>, trace |-> before]
          [] m.before.type = "Stop" ->
                [ok |-> TRUE, v |-> <<[level |-> i, by |-> "stop"]>>, trace |-> before]
          [] OTHER ->
                IF ~AfterRuns(kind, inner.ok)
                THEN [ok |-> FALSE, v |-> <<>>, trace |-> before \o inner.trace]
                ELSE IF m.after = "Ok"
                THEN [ok |-> TRUE,
                      v |-> <<[level |-> i, by |-> "after"]>> \o inner.v,
                      trace |-> before \o inner.trace \o after]
                ELSE [ok |-> FALSE, v |-> <<>>,
                      trace |-> before \o inner.trace \o after]

\* The calls a test can make: any kind, any event, any stack of middlewares
\* over an application that succeeds or fails.
MiddlewareInputs ==
    [kind : EventKinds, event : Events, stack : Stacks, app : {"Ok", "Err"}]

MiddlewareInit ==
    /\ channels = [c \in Chains |-> <<>>]
    /\ sequence = <<>>
    /\ pending = [c \in Chains |-> <<>>]
    /\ bank = [c \in Chains |->
                 SetBalance(<<>>, User(c), NativeDenom(c), InitialBalance)]
    /\ ics20db = [c \in Chains |-> <<>>]
    /\ pc = "idle"
    /\ res = <<>>
    /\ last \in {Called("middleware_input", Ok(""), i, Nothing) : i \in MiddlewareInputs}
    /\ nsent = 0
    /\ probe = [at |-> <<>>, log |-> <<>>, top |-> [c \in Chains |-> 0]]
    /\ builder = WithIbcApp(AppBuilderNew, Ics20App)

\* The outermost middleware's function is called with the input
MiddlewareDispatch ==
    /\ last.op = "middleware_input"
    /\ \E r \in {MiddlewareCall(last.arg.stack, 1, last.arg.kind, last.arg.event,
                                 last.arg.app)} :
          last' = Called("middleware_call", IF r.ok THEN Ok("") ELSE Err(""),
                         last.arg, [v |-> r.v, trace |-> r.trace])
    /\ UNCHANGED <<channels, sequence, pending, bank, ics20db, pc, res, nsent, probe, builder>>

MiddlewareNext == MiddlewareDispatch

MiddlewareSpec == MiddlewareInit /\ [][MiddlewareNext]_vars

----------------------------------------------------------------------------
(* C19: Stop and Continue                                                  *)

MiddlewareCalled == last.op = "middleware_call"

\* The places of the history where the application wrapped by the middleware
\* at position i was entered
TargetEntries(i) ==
    {j \in DOMAIN last.out.trace :
        /\ last.out.trace[j].level = i + 1
        /\ last.out.trace[j].hook \in {"before", "target"}}

BeforeRan(i) ==
    \E j \in DOMAIN last.out.trace :
        last.out.trace[j].level = i /\ last.out.trace[j].hook = "before"

\* The claim for the middleware at position i, for the kinds given
StopOrContinue(i, kinds) ==
    (BeforeRan(i) /\ last.arg.kind \in kinds) =>
        CASE last.arg.stack[i].before.type = "Stop" ->
                /\ TargetEntries(i) = {}
                /\ i = 1 => (last.ret.ok /\ last.out.v = <<[level |-> 1, by |-> "stop"]>>)
          [] last.arg.stack[i].before.type = "Continue" ->
                /\ Cardinality(TargetEntries(i)) = 1
                /\ \A j \in TargetEntries(i) :
                      last.out.trace[j].event = last.arg.stack[i].before.event
          [] OTHER -> TRUE

\* C19: for every kind of event, a before hook that returns Stop(r) keeps the
\* wrapped application from being invoked and r is the result; one that
\* returns Continue(e') has the wrapped application invoked once, with e'.
C19_StopOrContinue ==
    MiddlewareCalled =>
        \A i \in DOMAIN last.arg.stack : StopOrContinue(i, EventKinds)

\* A timeout handed to a middleware whose before hook rewrote it: the
\* wrapped application was invoked with the event as it came.
C19_Witness ==
    /\ MiddlewareCalled
    /\ last.arg.kind = "packet_timeout"
    /\ last.arg.stack[1].before.type = "Continue"
    /\ last.arg.stack[1].before.event # last.arg.event
    /\ \E j \in TargetEntries(1) : last.out.trace[j].event = last.arg.event

\* What the code keeps: the claim for outgoing packets, receives and
\* acknowledgements, and Stop for every kind.
C19_HoldsOnPacketPaths ==
    MiddlewareCalled =>
        \A i \in DOMAIN last.arg.stack :
            /\ StopOrContinue(i, {"handle_outgoing_packet", "packet_receive", "packet_ack"})
            /\ (BeforeRan(i) /\ last.arg.stack[i].before.type = "Stop") =>
                  TargetEntries(i) = {}

\* A receive whose before hook rewrote it: the wrapped application got the
\* rewritten event.
C19_PacketPathWitness ==
    /\ MiddlewareCalled
    /\ last.arg.kind = "packet_receive"
    /\ last.arg.stack[1].before.type = "Continue"
    /\ last.arg.stack[1].before.event # last.arg.event
    /\ \E j \in TargetEntries(1) : last.out.trace[j].event = last.arg.stack[1].before.event

----------------------------------------------------------------------------
(* C20: nested middlewares                                                 *)

\* The hooks and the application of the history, in the order they ran
Hooks(trace) == [j \in DOMAIN trace |-> <<trace[j].level, trace[j].hook>>]

FullOrder ==
    <<<<1, "before">>, <<2, "before">>, <<3, "target">>, <<2, "after">>, <<1, "after">>>>

\* M1(M2(app)) was called and both before hooks returned Continue
NestedAllContinue ==
    /\ MiddlewareCalled
    /\ Len(last.arg.stack) = 2
    /\ \A i \in 1..2 : last.arg.stack[i].before.type = "Continue"

\* An after hook ran only for a middleware whose before hook returned
\* Continue, and after everything inside it.
AfterOnlyAfterContinue ==
    \A j \in DOMAIN last.out.trace :
        last.out.trace[j].hook = "after" =>
            /\ last.arg.stack[last.out.trace[j].level].before.type = "Continue"
            /\ \A k \in DOMAIN last.out.trace :
                  last.out.trace[k].level > last.out.trace[j].level => k < j

\* C20 as stated: with every before hook returning Continue the order is
\* M1.before, M2.before, app, M2.after, M1.after, each after hook once.
C20_NestedOrder ==
    /\ NestedAllContinue => Hooks(last.out.trace) = FullOrder
    /\ MiddlewareCalled => AfterOnlyAfterContinue

\* C20 amended: that order holds on the receive path, and on the other paths
\* as long as what a middleware wraps returns Ok; when the application
\* returns an error no after hook runs, when M2's after hook returns an error
\* M1's does not run, and the call returns the error.
C20_NestedOrderWhileTargetsSucceed ==
    /\ NestedAllContinue =>
          LET kind == last.arg.kind
              appOk == last.arg.app = "Ok"
              m2Ok == last.arg.stack[2].after = "Ok"
              m1Ok == last.arg.stack[1].after = "Ok"
          IN  IF kind = "packet_receive"
              THEN /\ Hooks(last.out.trace) = FullOrder
                   /\ last.ret.ok = m1Ok
              ELSE /\ Hooks(last.out.trace) =
                         SubSeq(FullOrder, 1, IF ~appOk THEN 3 ELSE IF ~m2Ok THEN 4 ELSE 5)
                   /\ last.ret.ok = (appOk /\ m2Ok /\ m1Ok)
    /\ MiddlewareCalled => AfterOnlyAfterContinue

\* An acknowledgement went through M1 and M2 to an application that returned
\* an error: neither after hook ran.
C20_Witness ==
    /\ NestedAllContinue
    /\ last.arg.kind = "packet_ack"
    /\ last.arg.app = "Err"
    /\ ~last.ret.ok
    /\ Len(last.out.trace) = 3

\* A receive went through M1 and M2 to an application that failed: all five
\* ran in order.
C20_ReceiveWitness ==
    /\ NestedAllContinue
    /\ last.arg.kind = "packet_receive"
    /\ last.arg.app = "Err"
    /\ Hooks(last.out.trace) = FullOrder

----------------------------------------------------------------------------
(* Transactions of a module's handlers                                     *)

\* The transactions the last relay ran
RelayTxs ==
    IF last.op \in {"relay_packet", "relay_next_packet"} THEN last.out.txs ELSE <<>>

\* The acknowledgement packets the last relay filed on a chain
FiledAcksOn(c) ==
    {pending[x[1]][x[2]] : x \in {f \in last.out.filed :
        f[1] = c /\ pending[f[1]][f[2]].type = "AckPacket"}}

\* C21: what a module's handler (receive, acknowledgement, timeout) wrote to
\* the bank and to the denom table is in the chain's storage after the call
\* if and only if the handler reported success: after a success the storage
\* is the handler's cache, after a failure it is the storage the handler
\* started from; and a failed receive still files its acknowledgement, as an
\* acknowledgement packet marked unsuccessful.
C21_TransactionalDispatch ==
    \A i \in DOMAIN RelayTxs :
        LET tx == RelayTxs[i]
            kept == IF tx.ok THEN tx.cache ELSE tx.base
        IN  /\ bank[tx.chain] = kept.bank
            /\ ics20db[tx.chain] = kept.db
            /\ (tx.path = "packet_receive" /\ ~tx.ok) =>
                   /\ last.ret.ok
                   /\ last.ret.v = "Err"
                   /\ FiledAcksOn(tx.chain) # {}
                   /\ \A p \in FiledAcksOn(tx.chain) : ~p.success /\ p.ack = AckErr

\* A receive that wrote a new trace to the denom table and then failed: the
\* table is the one before the receive, the acknowledgement is filed.
C21_Witness ==
    \E i \in DOMAIN RelayTxs :
        /\ RelayTxs[i].path = "packet_receive"
        /\ ~RelayTxs[i].ok
        /\ RelayTxs[i].cache.db # RelayTxs[i].base.db
        /\ ics20db[RelayTxs[i].chain] = RelayTxs[i].base.db
        /\ FiledAcksOn(RelayTxs[i].chain) # {}

\* A receive that succeeded: its writes to the table and the bank are kept
C21_CommitWitness ==
    \E i \in DOMAIN RelayTxs :
        /\ RelayTxs[i].path = "packet_receive"
        /\ RelayTxs[i].ok
        /\ RelayTxs[i].cache.db # RelayTxs[i].base.db
        /\ RelayTxs[i].cache.bank # RelayTxs[i].base.bank
        /\ ics20db[RelayTxs[i].chain] = RelayTxs[i].cache.db

----------------------------------------------------------------------------
(* Registration: a builder that starts empty and is given applications,    *)
(* through with_ibc_app, through with_stargate_app, or by a direct call of  *)
(* try_add_application on its stargate module.                              *)

MaxApps == 3

OtherUrl == "/osmosis.tokenfactory.v1beta1.MsgMint"

\* Applications a test can write: two names, two ports, message urls and
\* query urls that may coincide between applications and between the kinds.
Applications ==
    {[name |-> n, port |-> p, msgs |-> m, queries |-> q] :
        n \in {"ics20", "tokenfactory"}, p \in {"transfer", "hook"},
        m \in {{}, {MsgTransferUrl}, {OtherUrl}}, q \in {{}, {MsgTransferUrl}}}

RegistryInit ==
    /\ channels = [c \in Chains |-> <<>>]
    /\ sequence = <<>>
    /\ pending = [c \in Chains |-> <<>>]
    /\ bank = [c \in Chains |->
                 SetBalance(<<>>, User(c), NativeDenom(c), InitialBalance)]
    /\ ics20db = [c \in Chains |-> <<>>]
    /\ pc = "idle"
    /\ res = <<>>
    /\ last = Called("new", Ok(""), Nothing, Nothing)
    /\ nsent = 0
    /\ probe = [at |-> <<>>, log |-> <<>>, top |-> [c \in Chains |-> 0]]
    /\ builder = AppBuilderNew

Registering(op, b, application) ==
    /\ builder.alive
    /\ nsent < MaxApps
    /\ builder' = b
    /\ last' = Called(op, IF b.alive THEN Ok("") ELSE Panic("called Result::unwrap() on an Err value"),
                      [application |-> application], Nothing)
    /\ nsent' = nsent + 1
    /\ UNCHANGED <<channels, sequence, pending, bank, ics20db, pc, res, probe>>

CallWithIbcApp ==
    \E application \in Applications :
        Registering("with_ibc_app", WithIbcApp(builder, application), application)

CallWithStargateApp ==
    \E application \in Applications :
        Registering("with_stargate_app", WithStargateApp(builder, application), application)

\* try_add_application called on the stargate module itself: an Err is
\* returned to the caller.
CallTryAddApplication ==
    /\ builder.alive
    /\ nsent < MaxApps
    /\ \E application \in Applications :
       \E added \in {TryAddApplication(builder.stargate, application)} :
          /\ builder' = IF added.ok THEN [builder EXCEPT !.stargate = added.v] ELSE builder
          /\ last' = Called("try_add_application", [added EXCEPT !.v = ""],
                            [application |-> application], Nothing)
    /\ nsent' = nsent + 1
    /\ UNCHANGED <<channels, sequence, pending, bank, ics20db, pc, res, probe>>

RegistryNext ==
    \/ CallWithIbcApp
    \/ CallWithStargateApp
    \/ CallTryAddApplication

RegistrySpec == RegistryInit /\ [][RegistryNext]_vars

RegistrationOps == {"with_ibc_app", "with_stargate_app", "try_add_application"}

\* The urls two applications of the stargate registry both handle
SharedUrls(n1, n2) ==
    (builder.stargate[n1].msgs \cup builder.stargate[n1].queries)
        \cap (builder.stargate[n2].msgs \cup builder.stargate[n2].queries)

\* The registration just made names a url that an application registered
\* before it handles
Duplicating ==
    \E n \in DOMAIN builder.stargate :
        (last'.arg.application.msgs \cup last'.arg.application.queries)
            \cap (builder.stargate[n].msgs \cup builder.stargate[n].queries) # {}

C22_TwoAppsWitness ==
    /\ builder.alive
    /\ Cardinality(DOMAIN builder.stargate) = 2
    /\ \E p \in DOMAIN builder.ibc : builder.ibc[p].name \in DOMAIN builder.stargate
                                     /\ builder.stargate[builder.ibc[p].name] # builder.ibc[p]

----------------------------------------------------------------------------
(* Ports nothing answers for.  A channel is opened towards a module port    *)
(* without an application or a contract without IBC entry points, and the   *)
(* functions of IbcModule are called with the name of such a port.          *)

DispatchOpenInputs ==
    {[chain_1 |-> "a", chain_2 |-> "b", port_1 |-> p1, port_2 |-> p2, failAt |-> 0] :
        p1 \in Ports \cup {UnknownPort, PlainContractPort},
        p2 \in Ports \cup {UnknownPort, PlainContractPort}}

OpenDispatch == OpenIbcChannel(DispatchOpenInputs)

\* The functions of IbcModule that are given the application's name
ModulePaths ==
    {"open_channel", "channel_connect", "packet_receive", "packet_ack", "packet_timeout"}

\* A call of IbcModule::<path> with the name of a port no application is
\* registered for: it ends at load_application.
CallIbcModule ==
    /\ pc = "idle"
    /\ \E path \in ModulePaths :
       \E application \in {UnknownPort.name} \ DOMAIN builder.ibc :
         last' = Called("ibc_module", [LoadApplication(path, application) EXCEPT !.v = ""],
                        [path |-> path, application |-> application], Nothing)
    /\ UNCHANGED <<channels, sequence, pending, bank, ics20db, pc, res, nsent, probe, builder>>

DispatchNext ==
    \/ OpenDispatch
    \/ SendAnyIbcMsg
    \/ CallIbcModule

DispatchSpec == Init /\ [][DispatchNext]_vars

\* Nothing answers for the port
Unanswered(port) == port \in {UnknownPort, PlainContractPort}

\* The chain on which the last open_ibc_channel first met a port nothing
\* answers for (the handshake opens side 1 first)
UnansweredChain(arg) == IF Unanswered(arg.port_1) THEN arg.chain_1 ELSE arg.chain_2

\* What a call that only reports an error leaves as it was
NothingTouched(c) ==
    /\ channels'[c] = channels[c]
    /\ pending' = pending
    /\ bank' = bank
    /\ ics20db' = ics20db
    /\ SubSeq(sequence', 1, Len(sequence)) = sequence

\* C23: an event dispatched to a module port without a registered
\* application, or to a contract port without registered IBC entry points,
\* gives the caller an error, never a crash, and leaves the channel records,
\* the sequence counters and the ledgers as they were.
C23_UnansweredPortIsAnError ==
    [][/\ last'.op = "ibc_module" =>
             /\ ~last'.ret.ok
             /\ ~last'.ret.panic
             /\ \A c \in Chains : NothingTouched(c)
       /\ (/\ last'.op = "open_ibc_channel"
           /\ Unanswered(last'.arg.port_1) \/ Unanswered(last'.arg.port_2)) =>
             /\ ~last'.ret.ok
             /\ ~last'.ret.panic
             /\ NothingTouched(UnansweredChain(last'.arg))]_vars

\* The receive function of IbcModule called for a port without application
C23_Witness ==
    /\ last.op = "ibc_module"
    /\ last.arg.path = "packet_receive"
    /\ last.arg.application \notin DOMAIN builder.ibc
    /\ last.ret.panic

\* The same statement for every event but the receive: it holds.
C23_ErrorExceptReceive ==
    [][/\ (last'.op = "ibc_module" /\ last'.arg.path # "packet_receive") =>
             /\ ~last'.ret.ok
             /\ ~last'.ret.panic
             /\ \A c \in Chains : NothingTouched(c)
       /\ (/\ last'.op = "open_ibc_channel"
           /\ Unanswered(last'.arg.port_1) \/ Unanswered(last'.arg.port_2)) =>
             /\ ~last'.ret.ok
             /\ ~last'.ret.panic
             /\ NothingTouched(UnansweredChain(last'.arg))]_vars

\* An open towards a contract without IBC entry points on the second side
C23_OpenWitness ==
    /\ last.op = "open_ibc_channel"
    /\ last.arg.port_2 = PlainContractPort
    /\ ~Unanswered(last.arg.port_1)
    /\ ~last.ret.ok
    /\ DOMAIN channels[last.arg.chain_2] = {}

----------------------------------------------------------------------------
(* The denom-trace table                                                   *)

\* Every entry of every table is still there, with the same trace
TablesKeepEntries ==
    \A c \in Chains : \A d \in DOMAIN ics20db[c] :
        d \in DOMAIN ics20db'[c] /\ ics20db'[c][d] = ics20db[c][d]

\* C24: no call (send, receive, acknowledgement, timeout) removes an entry of
\* a chain's denom-trace table or changes the trace it maps to, and a send
\* leaves every table exactly as it was.
C24_TraceTableAppendOnly ==
    [][/\ TablesKeepEntries
       /\ last'.op = "execute" => ics20db' = ics20db]_vars

\* A table that holds two traces: the second receive added to the first
C24_Witness ==
    /\ last.op \in {"relay_packet", "relay_next_packet"}
    /\ last.out.packet.type = "OutgoingPacket"
    /\ \E c \in Chains : Cardinality(DOMAIN ics20db[c]) = 2

\* A timeout notice or an acknowledgement delivered, and a voucher sent out,
\* on a chain whose table holds an entry
C24_NoticeWitness ==
    /\ last.op \in {"relay_packet", "relay_next_packet"}
    /\ last.out.packet.type \in {"Timeout", "AckPacket"}
    /\ DOMAIN ics20db[last.out.dest] # {}

C24_SendWitness ==
    /\ last.op = "execute"
    /\ last.ret.ok
    /\ last.arg.msg.amount.denom \in DOMAIN ics20db[last.arg.chain]

----------------------------------------------------------------------------
(* Ics20Helper::compute_ibc_denom_from_trace computed on the bytes of the   *)
(* trace: SHA-256 (Sha256::new, update, finalize), "{:x}", to_uppercase.    *)
(* A 32-bit word is the pair <<high half, low half>> of 16-bit numbers.     *)

Half == 2^16

RECURSIVE BitXor(_, _, _)
BitXor(a, b, n) ==
    IF n = 0 THEN 0
    ELSE ((a + b) % 2) + 2 * BitXor(a \div 2, b \div 2, n - 1)

RECURSIVE BitAnd(_, _, _)
BitAnd(a, b, n) ==
    IF n = 0 THEN 0
    ELSE ((a % 2) * (b % 2)) + 2 * BitAnd(a \div 2, b \div 2, n - 1)

WordXor(x, y) == <<BitXor(x[1], y[1], 16), BitXor(x[2], y[2], 16)>>

WordAnd(x, y) == <<BitAnd(x[1], y[1], 16), BitAnd(x[2], y[2], 16)>>

WordNot(x) == <<Half - 1 - x[1], Half - 1 - x[2]>>

\* rotate right by n < 16
RotateHalves(x, n) ==
    <<(x[1] \div 2^n) + (x[2] % 2^n) * 2^(16 - n),
      (x[2] \div 2^n) + (x[1] % 2^n) * 2^(16 - n)>>

RotateRight(x, n) ==
    IF n < 16 THEN RotateHalves(<<x[1] % Half, x[2] % Half>>, n)
    ELSE RotateHalves(<<x[2], x[1]>>, n - 16)

ShiftRight(x, n) ==
    IF n < 16 THEN <<x[1] \div 2^n, (x[2] \div 2^n) + (x[1] % 2^n) * 2^(16 - n)>>
    ELSE <<0, x[1] \div 2^(n - 16)>>

RECURSIVE SumHalf(_, _)
SumHalf(words, i) ==
    IF Len(words) = 0 THEN 0 ELSE words[1][i] + SumHalf(Tail(words), i)

\* wrapping_add of the words
WordAdd(words) ==
    LET lo == SumHalf(words, 2)
        hi == SumHalf(words, 1) + (lo \div Half)
    IN  <<hi % Half, lo % Half>>

Sha256K ==
    <<<<17034, 12184>>, <<28983, 17553>>, <<46528, 64463>>, <<59829, 56229>>,
      <<14678, 49755>>, <<23025, 4593>>, <<37439, 33444>>, <<43804, 24277>>,
      <<55303, 43672>>, <<4739, 23297>>, <<9265, 34238>>, <<21772, 32195>>,
      <<29374, 23924>>, <<32990, 45566>>, <<39900, 1703>>, <<49563, 61812>>,
      <<58523, 27073>>, <<61374, 18310>>, <<4033, 40390>>, <<9228, 41420>>,
      <<11753, 11375>>, <<19060, 33962>>, <<23728, 43484>>, <<30457, 35034>>,
      <<38974, 20818>>, <<43057, 50797>>, <<45059, 10184>>, <<48985, 32711>>,
      <<50912, 3059>>, <<54695, 37191>>, <<1738, 25425>>, <<5161, 10599>>,
      <<10167, 2693>>, <<11803, 8504>>, <<19756, 28156>>, <<21304, 3347>>,
      <<25866, 29524>>, <<30314, 2747>>, <<33218, 51502>>, <<37490, 11397>>,
      <<41663, 59553>>, <<43034, 26187>>, <<49739, 35696>>, <<51052, 20899>>,
      <<53650, 59417>>, <<54937, 1572>>, <<62478, 13701>>, <<4202, 41072>>,
      <<6564, 49430>>, <<7735, 27656>>, <<10056, 30540>>, <<13488, 48309>>,
      <<14620, 3251>>, <<20184, 43594>>, <<23452, 51791>>, <<26670, 28659>>,
      <<29839, 33518>>, <<30885, 25455>>, <<33992, 30740>>, <<36039, 520>>,
      <<37054, 65530>>, <<42064, 27883>>, <<48889, 41975>>, <<50801, 30962>>>>

Sha256H0 ==
    <<<<27145, 58983>>, <<47975, 44677>>, <<15470, 62322>>, <<42319, 62778>>,
      <<20750, 21119>>, <<39685, 26764>>, <<8067, 55723>>, <<23520, 52505>>>>

BigSigma0(x) == WordXor(WordXor(RotateRight(x, 2), RotateRight(x, 13)), RotateRight(x, 22))

BigSigma1(x) == WordXor(WordXor(RotateRight(x, 6), RotateRight(x, 11)), RotateRight(x, 25))

SmallSigma0(x) == WordXor(WordXor(RotateRight(x, 7), RotateRight(x, 18)), ShiftRight(x, 3))

SmallSigma1(x) == WordXor(WordXor(RotateRight(x, 17), RotateRight(x, 19)), ShiftRight(x, 10))

Choice(x, y, z) == WordXor(WordAnd(x, y), WordAnd(WordNot(x), z))

Majority(x, y, z) == WordXor(WordXor(WordAnd(x, y), WordAnd(x, z)), WordAnd(y, z))

\* update: the message, the byte 0x80, zeros up to a multiple of 64 bytes,
\* the bit length in the last bytes
Sha256Pad(bytes) ==
    LET total == 64 * ((Len(bytes) + 8) \div 64 + 1)
        bits == 8 * Len(bytes)
    IN  [i \in 1..total |->
            IF i <= Len(bytes) THEN bytes[i]
            ELSE IF i = Len(bytes) + 1 THEN 128
            ELSE IF i = total - 2 THEN (bits \div Half) % 256
            ELSE IF i = total - 1 THEN (bits \div 256) % 256
            ELSE IF i = total THEN bits % 256
            ELSE 0]

\* the sixteen big-endian words of block number n
Sha256BlockWords(padded, n) ==
    [t \in 1..16 |->
        LET at == 64 * (n - 1) + 4 * t
        IN  <<padded[at - 3] * 256 + padded[at - 2], padded[at - 1] * 256 + padded[at]>>]

\* The message schedule, n more words at a time.
RECURSIVE Sha256Schedule(_, _)
Sha256Schedule(w, n) ==
    IF n = 1
    THEN LET t == Len(w) + 1
         IN  Append(w, WordAdd(<<SmallSigma1(w[t - 2]), w[t - 7],
                                 SmallSigma0(w[t - 15]), w[t - 16]>>))
    ELSE CHOOSE full \in
             {Sha256Schedule(half, n - (n \div 2)) : half \in {Sha256Schedule(w, n \div 2)}} :
             TRUE

Sha256Round(h, k, w) ==
    LET t1 == WordAdd(<<h[8], BigSigma1(h[5]), Choice(h[5], h[6], h[7]), k, w>>)
        t2 == WordAdd(<<BigSigma0(h[1]), Majority(h[1], h[2], h[3])>>)
    IN  <<WordAdd(<<t1, t2>>), h[1], h[2], h[3], WordAdd(<<h[4], t1>>), h[5], h[6], h[7]>>

\* Rounds from..to of the compression function.
RECURSIVE Sha256Rounds(_, _, _, _)
Sha256Rounds(h, w, from, to) ==
    IF from = to THEN Sha256Round(h, Sha256K[from], w[from])
    ELSE LET mid == (from + to) \div 2
         IN  CHOOSE done \in
                 {Sha256Rounds(half, w, mid + 1, to) : half \in {Sha256Rounds(h, w, from, mid)}} :
                 TRUE

Sha256Compress(h, block) ==
    LET compressed ==
            CHOOSE c \in {Sha256Rounds(h, w, 1, 64) : w \in {Sha256Schedule(block, 48)}} : TRUE
    IN  [i \in 1..8 |-> WordAdd(<<h[i], compressed[i]>>)]

RECURSIVE Sha256Blocks(_, _, _)
Sha256Blocks(h, padded, n) ==
    IF 64 * n > Len(padded) THEN h
    ELSE CHOOSE done \in
             {Sha256Blocks(next, padded, n + 1) :
                  next \in {Sha256Compress(h, Sha256BlockWords(padded, n))}} :
             TRUE

\* finalize: the eight words of the digest
Sha256(bytes) ==
    CHOOSE digest \in {Sha256Blocks(Sha256H0, padded, 1) : padded \in {Sha256Pad(bytes)}} :
        TRUE

\* The characters of a trace and their bytes: "-" to "9" are 45 to 57 and
\* "a" to "z" are 97 to 122.
DigitChars == <<"-", ".", "/", "0", "1", "2", "3", "4", "5", "6", "7", "8", "9">>

LowerChars ==
    <<"a", "b", "c", "d", "e", "f", "g", "h", "i", "j", "k", "l", "m",
      "n", "o", "p", "q", "r", "s", "t", "u", "v", "w", "x", "y", "z">>

UpperChars ==
    <<"A", "B", "C", "D", "E", "F", "G", "H", "I", "J", "K", "L", "M",
      "N", "O", "P", "Q", "R", "S", "T", "U", "V", "W", "X", "Y", "Z">>

IndexIn(chars, c) == CHOOSE i \in DOMAIN chars : chars[i] = c

IsIn(chars, c) == \E i \in DOMAIN chars : chars[i] = c

\* str::as_bytes
AsBytes(chars) ==
    [i \in DOMAIN chars |->
        IF IsIn(LowerChars, chars[i]) THEN 96 + IndexIn(LowerChars, chars[i])
        ELSE 44 + IndexIn(DigitChars, chars[i])]

RECURSIVE Concat(_)
Concat(chars) == IF Len(chars) = 0 THEN "" ELSE chars[1] \o Concat(Tail(chars))

\* "{:x}": sixteen bits as four lowercase hex digits
HexDigit(n) == IF n < 10 THEN DigitChars[n + 4] ELSE LowerChars[n - 9]

HexOfHalf(n) ==
    <<HexDigit(n \div 4096), HexDigit((n \div 256) % 16),
      HexDigit((n \div 16) % 16), HexDigit(n % 16)>>

RECURSIVE LowerHex(_)
LowerHex(words) ==
    IF Len(words) = 0 THEN <<>>
    ELSE HexOfHalf(words[1][1]) \o HexOfHalf(words[1][2]) \o LowerHex(Tail(words))

ToUppercaseIdentity(chars) == chars

\* str::to_uppercase
ToUppercase(chars) ==
    [i \in DOMAIN chars |->
        IF IsIn(LowerChars, chars[i]) THEN UpperChars[IndexIn(LowerChars, chars[i])]
        ELSE chars[i]]

\* format!("{:x}", hasher.finalize()).to_uppercase()
HexDigest(chars) == ToUppercase(LowerHex(Sha256(AsBytes(chars))))

\* compute_ibc_denom_from_trace on the characters of the trace
ComputeIbcDenom(chars) == "ibc/" \o Concat(HexDigest(chars))


----------------------------------------------------------------------------
(* compute_ibc_denom_from_trace called on trace strings                    *)

MaxDerivations == 2

TransferChars == <<"t", "r", "a", "n", "s", "f", "e", "r">>

ChannelChars(n) == <<"c", "h", "a", "n", "n", "e", "l", "-">> \o n

UusdcChars == <<"u", "u", "s", "d", "c">>

UatomChars == <<"u", "a", "t", "o", "m">>

UlunaChars == <<"u", "l", "u", "n", "a">>

\* format!("{}/{}", path, base_denom)
RECURSIVE JoinChars(_)
JoinChars(segs) ==
    IF Len(segs) = 1 THEN segs[1] ELSE segs[1] \o <<"/">> \o JoinChars(Tail(segs))

\* test_path: "transfer/channel-6/uusdc"
TestPathTrace == JoinChars(<<TransferChars, ChannelChars(<<"6">>), UusdcChars>>)

\* test_path: the four-hop trace of "uluna"
TestPathLongTrace ==
    JoinChars(<<TransferChars, ChannelChars(<<"0">>),
                TransferChars, ChannelChars(<<"1", "4", "1">>),
                TransferChars, ChannelChars(<<"4", "2">>),
                TransferChars, ChannelChars(<<"2", "7">>), UlunaChars>>)

TraceStrings ==
    { TestPathTrace, TestPathLongTrace, UusdcChars, <<"a", "b", "c">>,
      JoinChars(<<TransferChars, ChannelChars(<<"0">>), UusdcChars>>),
      JoinChars(<<TransferChars, ChannelChars(<<"1">>), UusdcChars>>),
      JoinChars(<<TransferChars, ChannelChars(<<"6">>), UatomChars>>),
      JoinChars(<<TransferChars, ChannelChars(<<"6">>), UlunaChars>>),
      JoinChars(<<TransferChars, ChannelChars(<<"0">>),
                  TransferChars, ChannelChars(<<"1">>), UusdcChars>>),
      JoinChars(<<TransferChars, ChannelChars(<<"1">>),
                  TransferChars, ChannelChars(<<"0">>), UusdcChars>>) }

DenomInit ==
    /\ channels = [c \in Chains |-> <<>>]
    /\ sequence = <<>>
    /\ pending = [c \in Chains |-> <<>>]
    /\ bank = [c \in Chains |->
                 SetBalance(<<>>, User(c), NativeDenom(c), InitialBalance)]
    /\ ics20db = [c \in Chains |-> <<>>]
    /\ pc = "idle"
    /\ res = <<>>
    /\ last = Called("new", Ok(""), <<>>, <<>>)
    /\ nsent = 0
    /\ probe = [at |-> <<>>, log |-> <<>>, top |-> [c \in Chains |-> 0]]
    /\ builder = WithIbcApp(AppBuilderNew, Ics20App)

\* One call of Ics20Helper::compute_ibc_denom_from_trace; "results" keeps the
\* digits it formatted and "out" the calls made before it.
CallComputeIbcDenom ==
    /\ nsent < MaxDerivations
    /\ \E trace \in TraceStrings :
       \E denom \in {ComputeIbcDenom(trace)} :
          last' = [Called("compute_ibc_denom_from_trace", Ok(denom), trace,
                          IF last.op = "new" THEN <<>>
                          ELSE Append(last.out, [arg |-> last.arg, v |-> last.ret.v]))
                       EXCEPT !.results = HexDigest(trace)]
    /\ nsent' = nsent + 1
    /\ UNCHANGED <<channels, sequence, pending, bank, ics20db, pc, res, probe, builder>>

DenomNext == CallComputeIbcDenom

DenomSpec == DenomInit /\ [][DenomNext]_vars

UpperHexDigits ==
    {"0", "1", "2", "3", "4", "5", "6", "7", "8", "9", "A", "B", "C", "D", "E", "F"}

\* C25: deriving a denomination from a trace string gives "ibc/" followed by
\* the SHA-256 digest of the string in 64 uppercase hex digits; the trace
\* "transfer/channel-6/uusdc" always gives
\* ibc/B3504E092456BA618CC28AC671A71FB08C6CA0FD0BE7C8A5B5A3E2DD933CC9E4, and a
\* trace derived before gives the denomination it gave before.
C25_DerivedDenomIsHashOfTrace ==
    last.op = "compute_ibc_denom_from_trace" =>
        /\ last.ret.ok
        /\ Len(last.results) = 64
        /\ \A i \in 1..64 : last.results[i] \in UpperHexDigits
        /\ last.ret.v = "ibc/" \o Concat(last.results)
        /\ last.arg = TestPathTrace =>
               last.ret.v = "ibc/B3504E092456BA618CC28AC671A71FB08C6CA0FD0BE7C8A5B5A3E2DD933CC9E4"
        /\ \A i \in DOMAIN last.out :
               last.out[i].arg = last.arg => last.out[i].v = last.ret.v

C25_Witness ==
    /\ last.op = "compute_ibc_denom_from_trace"
    /\ last.arg = TestPathTrace
    /\ last.ret.v = "ibc/B3504E092456BA618CC28AC671A71FB08C6CA0FD0BE7C8A5B5A3E2DD933CC9E4"
    /\ Len(last.out) = 1
    /\ last.out[1].arg = TestPathTrace

\* The digest is SHA-256: "abc" gives the digest of FIPS 180-2, appendix B.1.
Sha256KnownAnswer ==
    (last.op = "compute_ibc_denom_from_trace" /\ last.arg = <<"a", "b", "c">>) =>
        last.ret.v = "ibc/BA7816BF8F01CFEA414140DE5DAE2223B00361A396177A9CB410FF61F20015AD"

----------------------------------------------------------------------------
(* IbcApp::channel_connect called on one side at a time                     *)

\* The record open_channel leaves on `chain` for a channel between a and b
\* over the given port: status Created.
WrapperOnPort(chain, port) ==
    LET other == IF chain = "a" THEN "b" ELSE "a"
        local == SetChannelId(IbcChannelCreator(port, "version-" \o chain, chain), 0)
        remote == SetChannelId(IbcChannelCreator(port, "version-" \o other, other), 0)
    IN  IbcChannelWrapperNew(local, remote, 1)

\* Both chains hold channel 0 as open_channel recorded it, over ICS20 ports
\* or over contracts.
ConnectInit ==
    /\ channels \in {[c \in Chains |-> ChannelsInsert(<<>>, 0, WrapperOnPort(c, port))] :
                        port \in Ports}
    /\ sequence = <<0>>
    /\ pending = [c \in Chains |-> <<>>]
    /\ bank = [c \in Chains |->
                 SetBalance(<<>>, User(c), NativeDenom(c), InitialBalance)]
    /\ ics20db = [c \in Chains |-> <<>>]
    /\ pc = "idle"
    /\ res = <<>>
    /\ last = Called("new", Ok(""), Nothing, <<>>)
    /\ nsent = 0
    /\ probe = [at |-> <<>>, log |-> <<>>, top |-> [c \in Chains |-> 0]]
    /\ builder = WithIbcApp(AppBuilderNew, Ics20App)

\* IbcApp::channel_connect(channel_id) on a chain; a contract's
\* ibc_channel_connect may return an error.  "out" keeps the messages it
\* dispatched.
CallChannelConnect ==
    /\ pc = "idle"
    /\ nsent < MaxCalls
    /\ \E c \in Chains : \E n \in 0..1 : \E fails \in BOOLEAN :
       \E st \in {IbcAppChannelConnect([ok |-> TRUE, ch |-> channels, ev |-> <<>>],
                                       c, n, 1, IF fails THEN 1 ELSE 0)} :
          /\ channels' = st.ch
          /\ last' = Called("channel_connect",
                            IF st.ok THEN Ok("") ELSE Err("channel_connect"),
                            [chain |-> c, channel_id |-> n, fails |-> fails,
                             status |-> IF n \in DOMAIN channels[c]
                                        THEN channels[c][n].status ELSE "none"],
                            st.ev)
    /\ nsent' = nsent + 1
    /\ UNCHANGED <<sequence, pending, bank, ics20db, pc, res, probe, builder>>

ConnectNext == CallChannelConnect

ConnectSpec == ConnectInit /\ [][ConnectNext]_vars

\* The connect handler of the side the last call was made on returned Ok
ConnectHandlerReturnedOk ==
    \/ ~last.arg.fails
    \/ channels[last.arg.chain][last.arg.channel_id].local.port.kind = "Module"

\* C26: on a side whose status is Created, channel_connect dispatches the ack
\* message (with the counterparty's version) and leaves the status Opening; on
\* Opening it dispatches the confirm message and leaves it Connected; on a
\* side that had both calls it fails, dispatches nothing and leaves the status;
\* when the handler fails the call fails and the status is not advanced.
C26_ChannelConnectTwicePerSide ==
    (last.op = "channel_connect" /\ last.arg.status # "none") =>
        LET before == last.arg.status
            channel == channels[last.arg.chain][last.arg.channel_id]
            kinds == [i \in DOMAIN last.out |-> last.out[i].kind]
        IN  /\ (before = "Created" /\ ConnectHandlerReturnedOk) =>
                   /\ last.ret.ok
                   /\ kinds = <<"connect_ack">>
                   /\ last.out[1].counterparty_version = channel.remote.version
                   /\ channel.status = "Opening"
            /\ (before = "Opening" /\ ConnectHandlerReturnedOk) =>
                   /\ last.ret.ok
                   /\ kinds = <<"connect_confirm">>
                   /\ channel.status = "Connected"
            /\ before \in {"Connected", "Closed"} =>
                   /\ ~last.ret.ok
                   /\ kinds = <<>>
                   /\ channel.status = before
            /\ ~ConnectHandlerReturnedOk =>
                   /\ ~last.ret.ok
                   /\ channel.status = before

\* A third channel_connect on a side: the first two, on Created and on
\* Opening, had succeeded, this one failed on Connected.
C26_Witness ==
    /\ last.op = "channel_connect"
    /\ nsent = 3
    /\ last.arg.status = "Connected"
    /\ ~last.ret.ok
    /\ last.out = <<>>
    /\ channels[last.arg.chain][0].status = "Connected"

\* A contract's handler failed at the confirm: the side stays Opening.
C26_HandlerFailedWitness ==
    /\ last.op = "channel_connect"
    /\ last.arg.status = "Opening"
    /\ last.arg.fails
    /\ ~last.ret.ok
    /\ Len(last.out) = 1
    /\ channels[last.arg.chain][0].status = "Opening"

----------------------------------------------------------------------------
(* The timeout test at receive                                              *)

\* A relay call has just handled a token transfer that declares a timeout
TransferReceived ==
    /\ RelayHandled
    /\ last.out.packet.type \in {"OutgoingPacket", "OutgoinPacketRaw"}
    /\ last.out.packet.data.kind = "ftpd"
    /\ last.out.packet.timeout # IbcTimeout(0, 0)

\* The relay filed a Timeout packet
TimeoutFiled ==
    \E f \in last.out.filed : pending[f[1]][f[2]].type = "Timeout"

\* The relay handed the packet to the application of the destination port
DeliveredToApplication ==
    \E i \in DOMAIN last.out.txs :
        last.out.txs[i].path = "packet_receive" /\ last.out.txs[i].chain = last.out.dest

\* C27: at receive a packet is timed out exactly when a timeout it declares
\* has elapsed at the destination's block (its timestamp is below the block
\* time or its height below the block height); a packet whose declared
\* timeouts, one or both, all lie in the future is delivered to the
\* application and files no Timeout packet.
C27_TimedOutIffElapsed ==
    TransferReceived =>
        /\ TimeoutFiled <=> Elapsed(last.out.packet.timeout, BlockInfo(last.out.dest))
        /\ ~Elapsed(last.out.packet.timeout, BlockInfo(last.out.dest)) =>
               DeliveredToApplication /\ ~TimeoutFiled

\* A transfer declaring a height and a timestamp that both lie in the future
\* was relayed: a Timeout packet was filed and the application never saw it.
C27_Witness ==
    /\ TransferReceived
    /\ last.out.packet.timeout = IbcTimeout(3, 3)
    /\ TimeoutFiled
    /\ ~DeliveredToApplication

\* A transfer declaring a height and a timestamp that both have elapsed was
\* delivered to the application.
C27_BothElapsedWitness ==
    /\ TransferReceived
    /\ last.out.packet.timeout = IbcTimeout(1, 1)
    /\ ~TimeoutFiled
    /\ DeliveredToApplication

\* The same statement for packets that declare one timeout only
C27_SingleTimeout ==
    (TransferReceived /\ 0 \in {last.out.packet.timeout.height, last.out.packet.timeout.nanos}) =>
        /\ TimeoutFiled <=> Elapsed(last.out.packet.timeout, BlockInfo(last.out.dest))
        /\ ~Elapsed(last.out.packet.timeout, BlockInfo(last.out.dest)) =>
               DeliveredToApplication /\ ~TimeoutFiled

C27_SingleTimeoutWitness ==
    /\ TransferReceived
    /\ last.out.packet.timeout \in {IbcTimeout(0, 3), IbcTimeout(3, 0)}
    /\ DeliveredToApplication

----------------------------------------------------------------------------
(* Outbound transfers by denomination                                       *)

\* The coin of a transfer message
CoinOf(msg) ==
    IF msg.type = "MsgTransfer"
    THEN [denom |-> msg.token.denom, amount |-> Uint128FromStr(msg.token.amount).v]
    ELSE msg.amount

\* This step is an accepted execute of a token transfer of one of `types`
TransferAccepted(types) ==
    /\ nsent' = nsent + 1
    /\ last'.op = "execute"
    /\ last'.ret.ok
    /\ last'.arg.msg.type \in types

\* The step took the coin from the sender by denomination: a voucher is
\* burned and its trace sent, a native is moved to the escrow account and
\* sent as it is.
HandledByDenomination ==
    LET chain == last'.arg.chain
        coin == CoinOf(last'.arg.msg)
        packet == pending'[chain][last'.out.key]
        escrow == AddressContainer(chain)
    IN  /\ Balance(bank'[chain], User(chain), coin.denom)
              = Balance(bank[chain], User(chain), coin.denom) - coin.amount
        /\ IF IsVoucher(coin.denom)
           THEN /\ coin.denom \in DOMAIN ics20db[chain]
                /\ packet.data.denom = ics20db[chain][coin.denom]
                /\ Supply(bank'[chain], coin.denom)
                      = Supply(bank[chain], coin.denom) - coin.amount
                /\ Balance(bank'[chain], escrow, coin.denom)
                      = Balance(bank[chain], escrow, coin.denom)
           ELSE /\ packet.data.denom = coin.denom
                /\ Supply(bank'[chain], coin.denom) = Supply(bank[chain], coin.denom)
                /\ Balance(bank'[chain], escrow, coin.denom)
                      = Balance(bank[chain], escrow, coin.denom) + coin.amount

\* C28: every accepted outbound token transfer, sent as IbcMsg::Transfer or
\* as a stargate MsgTransfer, is handled by denomination: for an ibc/<hash>
\* denomination the sender's tokens are burned and the packet carries the
\* trace the table holds for it; for any other denomination the sender's
\* tokens are moved to the escrow account, none is burned, and the packet
\* carries the denomination unchanged.
C28_OutboundByDenomination ==
    [][TransferAccepted({"Transfer", "MsgTransfer"}) => HandledByDenomination]_vars

\* A native token was sent with a stargate MsgTransfer: the escrow account
\* holds none of it and the supply shrank.
C28_Witness ==
    /\ last.op = "execute" /\ last.ret.ok
    /\ last.arg.msg.type = "MsgTransfer"
    /\ ~IsVoucher(last.arg.msg.token.denom)
    /\ nsent = 1
    /\ Balance(bank[last.arg.chain], AddressContainer(last.arg.chain),
               last.arg.msg.token.denom) = 0
    /\ Supply(bank[last.arg.chain], last.arg.msg.token.denom) < InitialBalance

\* A voucher was sent with a stargate MsgTransfer: the packet carries the
\* ibc/<hash> denomination, not its trace.
C28_VoucherWitness ==
    /\ last.op = "execute" /\ last.ret.ok
    /\ last.arg.msg.type = "MsgTransfer"
    /\ IsVoucher(last.arg.msg.token.denom)
    /\ pending[last.arg.chain][last.out.key].data.denom = last.arg.msg.token.denom

\* The same statement for IbcMsg::Transfer only
C28_IbcTransferByDenomination ==
    [][TransferAccepted({"Transfer"}) => HandledByDenomination]_vars

\* A voucher was sent with IbcMsg::Transfer: the packet carries its trace.
C28_IbcVoucherWitness ==
    /\ last.op = "execute" /\ last.ret.ok
    /\ last.arg.msg.type = "Transfer"
    /\ IsVoucher(last.arg.msg.amount.denom)
    /\ pending[last.arg.chain][last.out.key].data.denom
          = ics20db[last.arg.chain][last.arg.msg.amount.denom]

----------------------------------------------------------------------------
(* Inbound transfers: unescrow or mint                                      *)

\* A relay call has just delivered a token transfer, filed with both its
\* endpoints, to the ICS20 application of the destination
InboundTransferDelivered ==
    /\ RelayHandled
    /\ last.out.packet.type = "OutgoingPacket"
    /\ last.out.packet.data.kind = "ftpd"
    /\ Len(last.out.txs) = 1
    /\ last.out.txs[1].path = "packet_receive"

\* The denomination starts with "<port_id>/<channel_id>/" of the endpoint
HasPrefixOf(denom, endpoint) ==
    /\ Len(denom) >= 3
    /\ denom[1] = endpoint.port_id
    /\ denom[2] = endpoint.channel_id

\* What the receive transaction did, given the endpoint whose prefix marks a
\* returning asset: with the prefix nothing is recorded and, if the receive
\* is accepted, the amount of the stripped denomination moves from the
\* escrow account to the receiver; without it the trace
\* "<dest_port>/<dest_channel>/<denom>" is recorded under its derived
\* denomination and, if the receive is accepted, the amount is minted to the
\* receiver.
InboundDecidedBy(endpoint) ==
    LET tx == last.out.txs[1]
        packet == last.out.packet
        data == packet.data
        amount == Uint128FromStr(data.amount).v
        escrow == AddressContainer(tx.chain)
        stripped == SubSeq(data.denom, 3, Len(data.denom))
        released == IF Len(stripped) >= 2 /\ stripped[1] = "transfer"
                    THEN <<"ibc", Sha256Hex(stripped)>> ELSE stripped
        new_trace == <<packet.dest.port_id, packet.dest.channel_id>> \o data.denom
        minted == <<"ibc", Sha256Hex(new_trace)>>
    IN  IF HasPrefixOf(data.denom, endpoint)
        THEN /\ tx.cache.db = tx.base.db
             /\ tx.ok =>
                   /\ Balance(tx.cache.bank, data.receiver, released)
                         = Balance(tx.base.bank, data.receiver, released) + amount
                   /\ Balance(tx.cache.bank, escrow, released)
                         = Balance(tx.base.bank, escrow, released) - amount
                   /\ Supply(tx.cache.bank, released) = Supply(tx.base.bank, released)
        ELSE /\ minted \in DOMAIN tx.cache.db
             /\ tx.cache.db[minted] = new_trace
             /\ tx.ok =>
                   /\ Balance(tx.cache.bank, data.receiver, minted)
                         = Balance(tx.base.bank, data.receiver, minted) + amount
                   /\ Supply(tx.cache.bank, minted) = Supply(tx.base.bank, minted) + amount

\* The claim as stated: the prefix tested is the one of the packet's
\* destination endpoint.
C29_DestPrefixDecides ==
    InboundTransferDelivered => InboundDecidedBy(last.out.packet.dest)

\* C29: on an inbound transfer the receiving chain decides unescrow versus
\* mint by testing whether the packet denomination starts with
\* "<src_port>/<src_channel>/" (the packet's source endpoint): if it does the
\* asset is a returning one and is released from escrow with the prefix
\* stripped, otherwise the trace "<dest_port>/<dest_channel>/<denom>" is
\* recorded and a new derived denomination is minted; this holds when the two
\* sides of the channel have different channel ids.
C29_SourcePrefixDecides ==
    InboundTransferDelivered => InboundDecidedBy(last.out.packet.src)

\* A voucher came back over a channel whose two sides have different ids and
\* was released from escrow.
C29_Witness ==
    /\ InboundTransferDelivered
    /\ last.out.packet.src.channel_id # last.out.packet.dest.channel_id
    /\ HasPrefixOf(last.out.packet.data.denom, last.out.packet.src)
    /\ last.out.txs[1].ok
    /\ last.out.txs[1].cache.bank # last.out.txs[1].base.bank

\* A first hop over such a channel: a trace was recorded and a voucher minted.
C29_MintWitness ==
    /\ InboundTransferDelivered
    /\ last.out.packet.src.channel_id # last.out.packet.dest.channel_id
    /\ ~HasPrefixOf(last.out.packet.data.denom, last.out.packet.src)
    /\ last.out.txs[1].ok
    /\ last.out.txs[1].cache.db # last.out.txs[1].base.db

----------------------------------------------------------------------------
(* Packets filed without endpoints (OutgoinPacketRaw) at relay time         *)

\* A relay call has just handled a packet filed without endpoints
RawRelayed ==
    /\ RelayHandled
    /\ last.out.packet.type = "OutgoinPacketRaw"

\* The record of the packet's source channel on the chain that filed it
RawSourceRecord ==
    channels[last.out.chain][AsChannelNumber(last.out.packet.src_channel).v]

\* The relay succeeded and the packet was received once, on the chain of the
\* record's remote half, as a packet from the record's local endpoint to its
\* remote endpoint: what that chain filed in answer names these two.
ReceivedOverRecord(record) ==
    /\ last.ret.ok
    /\ last.out.calls = <<[chain |-> record.remote.chain_id, path |-> "packet_receive"]>>
    /\ \E f \in last.out.filed :
          /\ f[1] = record.remote.chain_id
          /\ pending[f[1]][f[2]].type \in {"AckPacket", "Timeout"}
          /\ pending[f[1]][f[2]].original_packet.src = AsEndpoint(record.local).v
          /\ pending[f[1]][f[2]].original_packet.dest = AsEndpoint(record.remote).v

\* C30: a packet filed without endpoints under source channel c of chain A is
\* resolved at relay time against A's record of c: it is received on the
\* chain and channel of that record's remote half, with A's side as source
\* endpoint and the remote side as destination endpoint, whatever the channel
\* ids are (the two sides' ids may differ, a chain may hold several channels).
C30_RawResolvedAtSource ==
    RawRelayed => ReceivedOverRecord(RawSourceRecord)

\* A packet filed without endpoints on a channel whose sides have different
\* ids was relayed, and what the destination filed in answer does not name
\* the channel's remote endpoint.
C30_Witness ==
    /\ RawRelayed
    /\ RawSourceRecord.local.channel_id # RawSourceRecord.remote.channel_id
    /\ last.ret.ok
    /\ \E f \in last.out.filed :
          pending[f[1]][f[2]].original_packet.dest # AsEndpoint(RawSourceRecord.remote).v

\* The same statement for channels whose two sides have the same id
C30_RawResolvedSameIds ==
    (RawRelayed /\ RawSourceRecord.local.channel_id = RawSourceRecord.remote.channel_id) =>
        ReceivedOverRecord(RawSourceRecord)

C30_SameIdsWitness ==
    /\ RawRelayed
    /\ RawSourceRecord.local.chain_id # RawSourceRecord.remote.chain_id
    /\ RawSourceRecord.local.channel_id = RawSourceRecord.remote.channel_id
    /\ ReceivedOverRecord(RawSourceRecord)

----------------------------------------------------------------------------
(* Token transfers received through a middleware around Ics20: every       *)
(* relay_packet call delivers through a middleware whose receive hooks      *)
(* return any of the values they can.                                       *)

\* The middlewares a packet can meet: any for a packet to be received, the
\* trait's own hooks for an acknowledgement or a timeout
MiddlewaresFor(packet) ==
    IF packet.type \in {"OutgoingPacket", "OutgoinPacketRaw"}
    THEN ReceiveMiddlewares
    ELSE {DefaultMiddleware}

\* A call of Ecosystem::relay_packet, the port's application being `mid`
\* around Ics20
RelayThroughMiddleware ==
    /\ pc = "idle"
    /\ \E chain \in Chains : \E key \in DOMAIN pending[chain] :
       \E mid \in MiddlewaresFor(pending[chain][key]) :
       \E r \in {EcosystemRelayPacket([W EXCEPT !.mid = <<mid>>], chain, key, "ack")} :
       \E out \in {Relayed(chain, key, r)} :
             /\ Commit(r.w)
             /\ last' = Called("relay_packet", [r.ret EXCEPT !.v = r.may],
                               [chain |-> chain, key |-> key, mid |-> mid], out)
             /\ probe' = [probe EXCEPT !.at = Follow(chain, key, r, out), !.top = Top(r.w)]
    /\ UNCHANGED <<pc, res, nsent, builder>>

\* One channel between the Ics20 ports of the two chains, and transfers of
\* one token over it
SendOneToken == Execute({"Transfer"}, {1}, {IbcTimeout(0, 3)})

MiddlewareRelayNext ==
    \/ OpenTimeout
    \/ SendOneToken
    \/ RelayThroughMiddleware

MiddlewareRelaySpec == Init /\ [][MiddlewareRelayNext]_vars

----------------------------------------------------------------------------
(* C31: a middleware with the trait's own after hook                        *)

\* The last relay delivered a transfer through a middleware whose before
\* hook let it through to Ics20, which refused it
InnerReceiveFailed ==
    /\ RefusedByApplication
    /\ "mid" \in DOMAIN last.arg
    /\ last.arg.mid.before = "Continue"

\* The transactions of the last relay that ran a packet_receive
ReceiveTxs == {i \in DOMAIN RelayTxs : RelayTxs[i].path = "packet_receive"}

\* C31: when the application wrapped by a middleware that keeps the trait's
\* mid_packet_receive_after fails its packet_receive, the receive is reported
\* as a failure, what it wrote is rolled back, and the acknowledgement packet
\* filed is marked unsuccessful.
C31_DefaultAfterKeepsFailure ==
    (InnerReceiveFailed /\ last.arg.mid.after = DefaultReceiveAfter) =>
        /\ last.out.may = "Err"
        /\ \A i \in ReceiveTxs :
              /\ ~RelayTxs[i].ok
              /\ bank[RelayTxs[i].chain] = RelayTxs[i].base.bank
              /\ ics20db[RelayTxs[i].chain] = RelayTxs[i].base.db
        /\ FiledAcksOn(last.out.dest) # {}
        /\ \A p \in FiledAcksOn(last.out.dest) : ~p.success

\* Ics20 behind the trait's after hook refused a transfer after it had
\* written a new trace to the denom table
C31_Witness ==
    /\ InnerReceiveFailed
    /\ last.arg.mid.after = DefaultReceiveAfter
    /\ \E i \in ReceiveTxs : RelayTxs[i].cache.db # RelayTxs[i].base.db

\* What the code does there: the receive is reported Ok, the trace Ics20
\* wrote stays in the table, and the acknowledgement (Ics20's error) is filed
\* marked successful.
C31_DefaultAfterSwallowsFailure ==
    (InnerReceiveFailed /\ last.arg.mid.after = DefaultReceiveAfter) =>
        /\ last.out.may = "Ok"
        /\ \A i \in ReceiveTxs :
              /\ RelayTxs[i].ok
              /\ ics20db[RelayTxs[i].chain] = RelayTxs[i].cache.db
        /\ \A p \in FiledAcksOn(last.out.dest) : p.success /\ p.ack = AckErr

----------------------------------------------------------------------------
(* C32: the acknowledgement a middleware exposes                            *)

\* The last relay handed a transfer to Ics20 through a middleware: the
\* module's packet_receive ran and the before hook returned Continue
ReceivedThroughMiddleware ==
    /\ RelayHandled
    /\ "mid" \in DOMAIN last.arg
    /\ last.arg.mid.before = "Continue"
    /\ ReceiveTxs # {}

\* What Ics20 answered: it moved tokens in its cache exactly when it accepted
InnerAck ==
    IF \E i \in ReceiveTxs : RelayTxs[i].cache.bank # RelayTxs[i].base.bank
    THEN AckOk
    ELSE AckErr

\* The acknowledgements of the packets the last relay filed on the receiver
ExposedAcks == {p.ack : p \in FiledAcksOn(last.out.dest)}

\* C32: after a receive the acknowledgement a middleware exposes follows the
\* AckSetting its after hook returned, Ok or Err: Replace(b) gives b, Remove
\* gives none, UseChildren gives the acknowledgement of the wrapped
\* application, whether that one succeeded or failed.
C32_AckFollowsSetting ==
    ReceivedThroughMiddleware =>
        /\ Cardinality(last.out.filed) = Cardinality(ExposedAcks)
        /\ CASE last.arg.mid.after.ack.type = "Replace" ->
                    ExposedAcks = {last.arg.mid.after.ack.ack}
             [] last.arg.mid.after.ack.type = "Remove" -> ExposedAcks = {}
             [] OTHER -> ExposedAcks = {InnerAck}

\* An after hook that failed with UseChildren over an Ics20 that had
\* accepted: the acknowledgement filed is Ics20's Ok
C32_Witness ==
    /\ ReceivedThroughMiddleware
    /\ ~last.arg.mid.after.ok
    /\ last.arg.mid.after.ack = UseChildren
    /\ InnerAck = AckOk
    /\ ExposedAcks = {AckOk}

\* Replace over an Ics20 that refused the transfer
C32_ReplaceWitness ==
    /\ ReceivedThroughMiddleware
    /\ RefusedByApplication
    /\ last.arg.mid.after.ack.type = "Replace"
    /\ ExposedAcks = {AckOpaque}

\* Remove: nothing is filed
C32_RemoveWitness ==
    /\ ReceivedThroughMiddleware
    /\ last.arg.mid.after.ack.type = "Remove"
    /\ last.out.filed = {}

----------------------------------------------------------------------------
(* Token transfers with a memo, received by IbcHook::new(Ics20): the setup  *)
(* of examples/src/ibc_hook.rs, one channel between the transfer ports of   *)
(* a and b, a counter contract on each chain.                              *)

HookMemos ==
    {"", EmptyMemoField, MalformedMemo}
        \cup {WasmMemo(f.contract, f.to_fail) : f \in WasmFields}

\* The transfers of one token the user of `chain` can ask for, with a memo
HookMessages(chain, channel_id) ==
    {[TransferMsg(channel_id, denom, 1, r, IbcTimeout(0, 3)) EXCEPT !.memo = memo] :
        denom \in Held(bank[chain], User(chain)),
        r \in Receivers \cup {HookContract(c) : c \in Chains},
        memo \in HookMemos}

\* A call of App::execute with IbcMsg::Transfer { memo: Some(..) }
HookSend ==
    /\ pc = "idle"
    /\ nsent < MaxSends
    /\ \E chain \in Chains :
       \E n \in DOMAIN channels[chain] :
       \E msg \in HookMessages(chain, AsChannelString(n)) :
       \E r \in {AppExecuteIbc(W, chain, User(chain), msg)} :
         LET key == NewKey(pending[chain])
             took == r.ret.ok /\ r.w.store[chain].bank # bank[chain]
         IN  /\ Commit(r.w)
             /\ last' = Called("execute", r.ret, [chain |-> chain, msg |-> msg],
                               [key |-> key, top |-> probe.top[chain]])
             /\ probe' = IF took
                         THEN [at |-> Put(probe.at, <<chain, key>>, Sent(chain, msg)),
                               log |-> Append(probe.log, Sent(chain, msg)),
                               top |-> Top(r.w)]
                         ELSE [probe EXCEPT !.top = Top(r.w)]
    /\ nsent' = nsent + 1
    /\ UNCHANGED <<pc, res, builder>>

\* A call of Ecosystem::relay_packet, the transfer port's application being
\* IbcHook around Ics20
HookRelay ==
    /\ pc = "idle"
    /\ \E chain \in Chains : \E key \in DOMAIN pending[chain] :
       \E r \in {EcosystemRelayPacket([W EXCEPT !.mid = <<IbcHook>>], chain, key, "ack")} :
       \E out \in {Relayed(chain, key, r)} :
             /\ Commit(r.w)
             /\ last' = Called("relay_packet", [r.ret EXCEPT !.v = r.may],
                               [chain |-> chain, key |-> key, mid |-> IbcHook], out)
             /\ probe' = [probe EXCEPT !.at = Follow(chain, key, r, out), !.top = Top(r.w)]
    /\ UNCHANGED <<pc, res, nsent, builder>>

HookNext ==
    \/ OpenTimeout
    \/ HookSend
    \/ HookRelay

HookSpec == Init /\ [][HookNext]_vars

----------------------------------------------------------------------------
(* C33: a failing execution of the contract named by the memo               *)

\* The memo asks for an execution that fails on `chain`: the contract
\* refuses the message, or there is no such contract
AsksFailingExecution(memo, chain) ==
    \E f \in WasmFields :
        /\ memo = WasmMemo(f.contract, f.to_fail)
        /\ f.to_fail \/ f.contract # HookContract(chain)

\* The last relay delivered to IbcHook a tracked transfer whose memo asks for
\* a failing execution
HookExecutionFailed ==
    /\ RelayedSomething
    /\ "mid" \in DOMAIN last.arg
    /\ last.arg.mid = IbcHook
    /\ last.out.packet.type = "OutgoingPacket"
    /\ last.out.sent # <<>>
    /\ AsksFailingExecution(last.out.packet.data.memo, last.out.dest)

\* The last relay handled the negative acknowledgement of such a transfer
HookFailureAcked ==
    /\ NegativeAckRelayed
    /\ "mid" \in DOMAIN last.arg
    /\ last.arg.mid = IbcHook
    /\ AsksFailingExecution(last.out.packet.original_packet.data.memo, last.out.chain)

\* What the claim says of the receive
HookFailureRollsBack ==
    HookExecutionFailed =>
        /\ last.out.may = "Err"
        /\ ReceiveTxs # {}
        /\ \A i \in ReceiveTxs :
              /\ ~RelayTxs[i].ok
              /\ bank[last.out.dest] = RelayTxs[i].base.bank
              /\ ics20db[last.out.dest] = RelayTxs[i].base.db
        /\ last.out.minted[last.out.dest] = {}
        /\ FiledAcksOn(last.out.dest) # {}
        /\ \A p \in FiledAcksOn(last.out.dest) : ~p.success /\ p.ack = AckErr

\* What the claim says of the relay of the acknowledgement
HookFailureRestoresSender ==
    HookFailureAcked =>
        LET sent == last.out.sent[1]
        IN  /\ last.ret.ok
            /\ Alone(sent) =>
                  Balance(bank[sent.chain], sent.sender, sent.denom) = sent.before

\* C33: when the memo of a received transfer asks for a contract execution
\* and the execution fails, the receive fails as a whole: the destination's
\* bank and denom table are what they were before the relay (nothing minted
\* or released stays, the contract holds no more than before), a negative
\* acknowledgement is filed, and once it is relayed the sender's balance of
\* the denomination sent is back to its value before the send.
C33_FailingHookReverts ==
    /\ HookFailureRollsBack
    /\ HookFailureRestoresSender

\* The same, the sender's balance being claimed for native denominations only
C33_NativeFailingHookReverts ==
    /\ HookFailureRollsBack
    /\ (HookFailureAcked /\ ~IsVoucher(last.out.sent[1].denom)) =>
          LET sent == last.out.sent[1]
          IN  /\ last.ret.ok
              /\ Alone(sent) =>
                    Balance(bank[sent.chain], sent.sender, sent.denom) = sent.before

\* The negative acknowledgement of a native transfer whose hook execution
\* failed was relayed, nothing else having moved since the send
C33_Witness ==
    /\ HookFailureAcked
    /\ ~IsVoucher(last.out.sent[1].denom)
    /\ Alone(last.out.sent[1])

\* The same for a voucher
C33_VoucherWitness ==
    /\ HookFailureAcked
    /\ IsVoucher(last.out.sent[1].denom)
    /\ Alone(last.out.sent[1])

\* A transfer whose memo asks for a failing execution was just delivered
C33_ReceiveWitness ==
    /\ HookExecutionFailed
    /\ last.out.packet.data.memo = WasmMemo(HookContract(last.out.dest), TRUE)

----------------------------------------------------------------------------
(* C34: the ids of the channel records                                      *)

\* The ids a registry holds are 0..k-1
GapFree(reg) == DOMAIN reg = 0..(Cardinality(DOMAIN reg) - 1)

\* The smallest id the registry does not hold
SmallestUnused(reg) == SetMin((0..Cardinality(DOMAIN reg)) \ DOMAIN reg)

\* The registries after the first open_channel of the open_ibc_channel call
\* that is the step's, as the call found them and with the ids it took
AfterFirstOpen ==
    LET arg == last'.arg
    IN  IbcAppOpenChannel([ok |-> TRUE, ch |-> channels, ev |-> <<>>], arg.chain_1,
            SetChannelId(IbcChannelCreator(arg.port_1, "version-1", arg.chain_1),
                         arg.channel_id_1),
            SetChannelId(IbcChannelCreator(arg.port_2, "version-2", arg.chain_2),
                         arg.channel_id_2),
            Len(sequence) + 1, 1, arg.failAt)

\* An open_ibc_channel call was the step
OpenCalled == last'.op = "open_ibc_channel" /\ Len(sequence') = Len(sequence) + 1

\* What the claim says of one open_ibc_channel call
OpenKeepsIdsGapFree ==
    /\ \A c \in Chains :
          /\ GapFree(channels[c]) => GapFree(channels'[c])
          /\ \A k \in DOMAIN channels[c] :
                k \in DOMAIN channels'[c] /\ channels'[c][k] = channels[c][k]
    /\ last'.arg.channel_id_1 = SmallestUnused(channels[last'.arg.chain_1])
    /\ AfterFirstOpen.ok =>
          /\ last'.arg.channel_id_2 \notin DOMAIN AfterFirstOpen.ch[last'.arg.chain_2]
          /\ last'.arg.channel_id_2 = SmallestUnused(AfterFirstOpen.ch[last'.arg.chain_2])

\* C34: the channel ids of a chain are gap-free from 0; each open_channel of
\* an open_ibc_channel call stores its record under the smallest id the
\* chain's registry does not hold at that moment, and so replaces no record,
\* neither one an earlier call stored nor the one the same call just stored.
C34_IdsGapFreeNoOverwrite ==
    [][OpenCalled => OpenKeepsIdsGapFree]_vars

\* The same for calls that name two different chains
C34_IdsGapFreeBetweenChains ==
    [][(OpenCalled /\ last'.arg.chain_1 # last'.arg.chain_2) => OpenKeepsIdsGapFree]_vars

\* The ids of every chain are gap-free from 0
C34_GapFree == \A c \in Chains : GapFree(channels[c])

\* A chain was opened with itself: the call's two open_channel stored one
\* record, the second replacing the first
C34_Witness ==
    /\ last.op = "open_ibc_channel"
    /\ last.arg.chain_1 = last.arg.chain_2
    /\ last.arg.channel_id_1 = last.arg.channel_id_2
    /\ last.arg.channel_id_1 \in DOMAIN channels[last.arg.chain_1]
    /\ Side1.local.port = last.arg.port_2
    /\ last.arg.port_1 # last.arg.port_2

\* A second channel between two different chains: ids 0 and 1 on both
C34_TwoChannelsWitness ==
    /\ last.op = "open_ibc_channel"
    /\ last.arg.chain_1 # last.arg.chain_2
    /\ DOMAIN channels[last.arg.chain_1] = {0, 1}

----------------------------------------------------------------------------
(* Token transfers, with IbcMsg::Transfer or MsgTransfer and a timeout      *)
(* that is elapsed or not, over channels whose two sides can have different *)
(* ids: a chain opened with itself, or a handshake between contract ports   *)
(* that fails at the second open_channel, come before the channel between   *)
(* the transfer ports of a and b.                                           *)

ReturnOpenInputs ==
    TransferOpenInputs
        \cup {[chain_1 |-> "a", chain_2 |-> "b", port_1 |-> ContractPort,
               port_2 |-> ContractPort, failAt |-> 2]}

OpenReturn == OpenIbcChannel(ReturnOpenInputs)

SendReturn == Execute({"Transfer", "MsgTransfer"}, {1}, {IbcTimeout(0, 3), IbcTimeout(0, 1)})

\* A call of Ecosystem::relay_packet
RelayReturn ==
    /\ pc = "idle"
    /\ \E chain \in Chains : \E key \in DOMAIN pending[chain] :
       \E r \in {EcosystemRelayPacket(W, chain, key, "ack")} :
       \E out \in {Relayed(chain, key, r)} :
             /\ Commit(r.w)
             /\ last' = Called("relay_packet", [r.ret EXCEPT !.v = r.may],
                               [chain |-> chain, key |-> key], out)
             /\ probe' = [probe EXCEPT !.at = Follow(chain, key, r, out), !.top = Top(r.w)]
    /\ UNCHANGED <<pc, res, nsent, builder>>

ReturnNext ==
    \/ OpenReturn
    \/ SendReturn
    \/ RelayReturn

ReturnSpec == Init /\ [][ReturnNext]_vars

----------------------------------------------------------------------------
(* C35: where acknowledgements and timeouts go                              *)

\* The last relay delivered a tracked transfer p to its destination
TransferDelivered ==
    /\ RelayHandled
    /\ last.ret.ok
    /\ last.out.packet.type \in {"OutgoingPacket", "OutgoinPacketRaw"}
    /\ last.out.sent # <<>>

\* The last relay handled what the receive of a tracked transfer p filed
NoticeRelayed ==
    /\ RelayHandled
    /\ last.out.packet.type \in {"AckPacket", "Timeout"}
    /\ last.out.sent # <<>>

\* The packet data of the transfer the history recorded
DataOf(sent) ==
    FungibleTokenPacketData(
        IF IsVoucher(sent.denom) /\ ~sent.stargate /\ sent.denom \in DOMAIN ics20db[sent.chain]
        THEN ics20db[sent.chain][sent.denom] ELSE sent.denom,
        Uint128ToString(sent.amount), sent.sender, sent.receiver, "")

\* The notice names, as the packet's source, the channel the transfer was
\* sent over, and carries the transfer's data; the relay delivered it to the
\* sender's chain, to packet_ack or packet_timeout
ReturnedToSender(sent) ==
    /\ last.ret.ok
    /\ last.out.dest = sent.chain
    /\ last.out.calls =
          <<[chain |-> sent.chain,
             path |-> IF last.out.packet.type = "AckPacket" THEN "packet_ack"
                      ELSE "packet_timeout"]>>
    /\ last.out.packet.original_packet.src.channel_id = sent.channel_id
    /\ last.out.packet.original_packet.data = DataOf(sent)

\* What the claim says of the receive and of the relay of the answer
NoticesGoBack ==
    /\ TransferDelivered =>
          /\ last.out.filed # {}
          /\ \A f \in last.out.filed :
                /\ f[1] = channels[last.out.chain][
                             AsChannelNumber(last.out.sent[1].channel_id).v].remote.chain_id
                /\ pending[f[1]][f[2]].type \in {"AckPacket", "Timeout"}
                /\ pending[f[1]][f[2]].original_packet.data = last.out.packet.data
    /\ NoticeRelayed => ReturnedToSender(last.out.sent[1])

\* C35: what the receive of a packet p files (an acknowledgement, or a
\* timeout) is filed on the chain that received p and carries p's data; its
\* relay delivers it to the chain p was sent from, on the channel p was sent
\* over, however many channels the chains hold and whatever their ids.
C35_NoticesReturnToSource == NoticesGoBack

\* The same for packets filed with their endpoints (IbcMsg::Transfer)
C35_IbcNoticesReturnToSource ==
    /\ (TransferDelivered /\ ~last.out.sent[1].stargate) =>
          /\ last.out.filed # {}
          /\ \A f \in last.out.filed :
                /\ f[1] = channels[last.out.chain][
                             AsChannelNumber(last.out.sent[1].channel_id).v].remote.chain_id
                /\ pending[f[1]][f[2]].type \in {"AckPacket", "Timeout"}
                /\ pending[f[1]][f[2]].original_packet.data = last.out.packet.data
    /\ (NoticeRelayed /\ ~last.out.sent[1].stargate) => ReturnedToSender(last.out.sent[1])

\* The channel the tracked transfer was sent over, as its chain records it
SentOver(sent) == channels[sent.chain][AsChannelNumber(sent.channel_id).v]

\* A notice for a transfer sent with MsgTransfer over a channel between two
\* chains whose sides have different ids was relayed
C35_Witness ==
    /\ NoticeRelayed
    /\ last.out.sent[1].stargate
    /\ SentOver(last.out.sent[1]).status = "Connected"
    /\ SentOver(last.out.sent[1]).remote.chain_id # last.out.sent[1].chain
    /\ SentOver(last.out.sent[1]).remote.channel_id
          # SentOver(last.out.sent[1]).local.channel_id

\* A timeout for an IbcMsg::Transfer over such a channel came back
C35_IbcWitness ==
    /\ NoticeRelayed
    /\ ~last.out.sent[1].stargate
    /\ last.out.packet.type = "Timeout"
    /\ ReturnedToSender(last.out.sent[1])
    /\ SentOver(last.out.sent[1]).remote.chain_id # last.out.sent[1].chain
    /\ SentOver(last.out.sent[1]).remote.channel_id
          # SentOver(last.out.sent[1]).local.channel_id

----------------------------------------------------------------------------
(* C36: the supply and the escrow after a reverted native transfer          *)

\* The last relay handled the negative acknowledgement, or the timeout, of
\* the first transfer ever sent, a native denomination: before that send the
\* chain's supply of it was the genesis balance and nothing was in escrow.
FirstNativeReverted ==
    /\ NoticeRelayed
    /\ last.ret.ok
    /\ last.out.packet.type = "AckPacket" => ~last.out.packet.success
    /\ ~IsVoucher(last.out.sent[1].denom)
    /\ probe.log = <<last.out.sent[1]>>
    /\ nsent = 1

\* The source chain's supply of the denomination and its escrow balance are
\* what they were before the send
ValueConserved(sent) ==
    /\ Supply(bank[sent.chain], sent.denom) = InitialBalance
    /\ Balance(bank[sent.chain], AddressContainer(sent.chain), sent.denom) = 0

\* C36: after the negative acknowledgement or the timeout of a transfer of a
\* native denomination has been relayed, the source chain's total supply of
\* the denomination and the balance of the escrow account are what they were
\* before the send.
C36_RevertConservesValue ==
    FirstNativeReverted => ValueConserved(last.out.sent[1])

\* The same for IbcMsg::Transfer only, the notice having come back to the
\* sender's chain
C36_IbcRevertConservesValue ==
    (FirstNativeReverted /\ ~last.out.sent[1].stargate
        /\ ReturnedToSender(last.out.sent[1])) =>
        ValueConserved(last.out.sent[1])

\* The sender has its tokens back, as much is still in escrow, and the
\* supply has grown by the amount
C36_Witness ==
    /\ FirstNativeReverted
    /\ ~last.out.sent[1].stargate
    /\ ReturnedToSender(last.out.sent[1])
    /\ Balance(bank[last.out.sent[1].chain], last.out.sent[1].sender,
               last.out.sent[1].denom) = last.out.sent[1].before
    /\ Balance(bank[last.out.sent[1].chain], AddressContainer(last.out.sent[1].chain),
               last.out.sent[1].denom) = last.out.sent[1].amount
    /\ Supply(bank[last.out.sent[1].chain], last.out.sent[1].denom)
          = InitialBalance + last.out.sent[1].amount

\* The same witness for a timeout
C36_TimeoutWitness ==
    /\ C36_Witness
    /\ last.out.packet.type = "Timeout"

----------------------------------------------------------------------------
(* C37: the sequence number a contract is told with a timeout               *)

\* IbcApp::packet_timeout, IbcPort::Contract arm: the IbcPacketTimeoutMsg
\* handed to ibc_packet_timeout, built from the channel record of the
\* packet's source channel and the value its counter holds now
IbcPacketTimeoutMsgNew(chans, cells, chain, packet) ==
    LET channel == ChannelsGetStr(chans[chain], packet.original_packet.src.channel_id).v
    IN  IbcPacket(packet.original_packet.data,
                  AsEndpoint(channel.local).v, AsEndpoint(channel.remote).v,
                  cells[channel.sequence], packet.original_packet.timeout)

\* The last relay_packet call delivered a Timeout to the contract that owns
\* the source port of the timed-out packet
TimeoutDeliveredToContract ==
    /\ last.op \in {"relay_packet", "relay_next_packet"}
    /\ last.ret.ok
    /\ last.out.packet.type = "Timeout"
    /\ last.out.calls = <<Call(last.out.dest, "packet_timeout")>>
    /\ ChannelsGetStr(channels[last.out.dest],
                      last.out.packet.original_packet.src.channel_id).v.local.port.kind
          = "Contract"

\* The message the contract was called with (the delivery of a timeout
\* leaves registries and counters as they were)
TimeoutMsgDelivered ==
    IbcPacketTimeoutMsgNew(channels, sequence, last.out.dest, last.out.packet)

\* C37: the timeout message a contract receives for its timed-out packet
\* carries the sequence number the packet was given when its receive was
\* attempted, whatever was received on the channel since.
C37_TimeoutKeepsSequence ==
    TimeoutDeliveredToContract =>
        TimeoutMsgDelivered.sequence = last.out.packet.original_packet.sequence

\* The rest of the message is the packet's: data, endpoints and timeout
C37_TimeoutKeepsPacket ==
    TimeoutDeliveredToContract =>
        [TimeoutMsgDelivered EXCEPT !.sequence = 0]
            = [last.out.packet.original_packet EXCEPT !.sequence = 0]

\* A timeout was delivered to a contract after another packet had been
\* received on the same channel: the counter has moved on
C37_Witness ==
    /\ TimeoutDeliveredToContract
    /\ last.out.packet.original_packet.sequence = 1
    /\ TimeoutMsgDelivered.sequence = 2

\* A timeout was delivered to a contract, nothing else received meanwhile
C37_QuietWitness ==
    /\ TimeoutDeliveredToContract
    /\ TimeoutMsgDelivered.sequence = last.out.packet.original_packet.sequence

----------------------------------------------------------------------------
(* C38: what a failed handshake leaves behind                               *)

\* The last call was an open_ibc_channel that returned an error
OpenFailed == last.op = "open_ibc_channel" /\ ~last.ret.ok

\* Neither registry holds a record under the ids the last call took
NoRecordOfAttempt ==
    /\ last.arg.channel_id_1 \notin DOMAIN channels[last.arg.chain_1]
    /\ last.arg.channel_id_2 \notin DOMAIN channels[last.arg.chain_2]

\* C38: the handshake is all-or-nothing; after open_ibc_channel has returned
\* an error neither registry holds a record of the attempted channel, and so
\* every record the registries hold between calls is Connected.
C38_HandshakeAllOrNothing ==
    /\ OpenFailed => NoRecordOfAttempt
    /\ \A c \in Chains : \A k \in DOMAIN channels[c] : channels[c][k].status = "Connected"

\* What holds: nothing is kept when the first open_channel fails, and a call
\* that returns Ok leaves two Connected records
C38_NothingBeforeFirstRecord ==
    /\ (OpenFailed /\ Len(last.out.ev) <= 1) => NoRecordOfAttempt
    /\ (last.op = "open_ibc_channel" /\ last.ret.ok) =>
          Side1.status = "Connected" /\ Side2.status = "Connected"

\* The handler of side 2 failed at its first channel_connect: the call
\* returned an error, side 1 keeps an Opening record and side 2 a Created one
C38_Witness ==
    /\ OpenFailed
    /\ last.arg.chain_1 # last.arg.chain_2
    /\ last.arg.failAt = 4
    /\ last.arg.channel_id_1 \in DOMAIN channels[last.arg.chain_1]
    /\ last.arg.channel_id_2 \in DOMAIN channels[last.arg.chain_2]
    /\ Side1.status = "Opening"
    /\ Side2.status = "Created"

\* The open handler of side 1 failed: no record anywhere
C38_FirstStepWitness ==
    /\ OpenFailed
    /\ last.arg.failAt = 1
    /\ Len(last.out.ev) = 1
    /\ NoRecordOfAttempt

----------------------------------------------------------------------------
(* C39: packets on channels that are not Connected                          *)

\* The last call was an execute of a message that sends a packet over a
\* channel the chain records with a status other than Connected
SentOnUnconnected ==
    /\ last.op = "execute"
    /\ last.arg.msg.type \in {"Transfer", "SendPacket"}
    /\ AsChannelNumber(last.arg.msg.channel_id).ok
    /\ AsChannelNumber(last.arg.msg.channel_id).v \in DOMAIN channels[last.arg.chain]
    /\ channels[last.arg.chain][AsChannelNumber(last.arg.msg.channel_id).v].status
          # "Connected"

\* The record, on the destination chain, of the channel the packet of the
\* last relay names as its destination
DestinationRecord ==
    channels[last.out.dest][AsChannelNumber(last.out.packet.dest.channel_id).v]

\* The last relay_packet call handed a packet to the receive path of a chain
\* that records the packet's destination channel with a status other than
\* Connected
ReceivedOnUnconnected ==
    /\ last.op \in {"relay_packet", "relay_next_packet"}
    /\ last.out.packet.type = "OutgoingPacket"
    /\ AsChannelNumber(last.out.packet.dest.channel_id).v \in DOMAIN channels[last.out.dest]
    /\ DestinationRecord.status # "Connected"

\* C39: a send over a channel that is still Created or Opening returns an
\* error and files no packet; a receive on such a channel returns an error,
\* runs no handler of the application and files no answer.
C39_OnlyOnConnectedChannels ==
    /\ SentOnUnconnected =>
          /\ ~last.ret.ok
          /\ last.out.key \notin DOMAIN pending[last.arg.chain]
    /\ ReceivedOnUnconnected =>
          /\ ~last.ret.ok
          /\ last.out.txs = <<>>
          /\ last.out.filed = {}

\* A packet sent over an Opening channel was received on its other side,
\* Opening as well, and answered
C39_Witness ==
    /\ ReceivedOnUnconnected
    /\ DestinationRecord.status = "Opening"
    /\ last.ret.ok
    /\ last.out.filed # {}

\* A send over a channel that is not Connected filed its packet
C39_SendWitness ==
    /\ SentOnUnconnected
    /\ last.ret.ok
    /\ last.out.key \in DOMAIN pending[last.arg.chain]

----------------------------------------------------------------------------
(* C40: the order of a chain's ledger                                       *)

\* The step filed a packet under key k of chain c's ledger
FiledAt(c, k) ==
    /\ k \in DOMAIN pending'[c]
    /\ k \notin DOMAIN pending[c] \/ pending'[c][k] # pending[c][k]

\* A packet filed by the step lies, in key order, after every packet of the
\* same ledger that was filed before: the key order is the filing order
FiledBehind ==
    \A c \in Chains : \A k \in DOMAIN pending'[c] :
        FiledAt(c, k) =>
            \A j \in DOMAIN pending'[c] : (j # k /\ ~FiledAt(c, j)) => j < k

\* The ledger without the packet under key k
Without(ledger, k) == [j \in DOMAIN ledger \ {k} |-> ledger[j]]

\* The step was a relay (relay_packet, or a pass of relay_all_packets) of
\* the packet under last'.arg.key of chain last'.arg.chain
RelayStep ==
    /\ last'.op \in {"relay_packet", "relay_next_packet"}
    /\ pending' # pending \/ last' # last

\* What the claim says of one step
LedgerFifo ==
    /\ FiledBehind
    /\ (RelayStep /\ pc = "relaying") =>
          last'.arg.key = SetMin(DOMAIN pending[last'.arg.chain])
    /\ RelayStep =>
          pending'[last'.arg.chain]
              \in {pending[last'.arg.chain],
                   Without(pending[last'.arg.chain], last'.arg.key)}

\* C40: the keys of a ledger follow the order of filing and relay_all_packets
\* takes the lowest key of the chain it serves, so a chain's packets are
\* relayed first filed, first relayed; and the relay of a packet of chain A
\* changes A's ledger by removing that packet and in no other way.
C40_LedgerFifo == [][LedgerFifo]_vars

\* The same, the ledger of the source being claimed unchanged but for the
\* removal only when the packet goes to another chain
C40_LedgerFifoBetweenChains ==
    [][/\ FiledBehind
       /\ (RelayStep /\ pc = "relaying") =>
             last'.arg.key = SetMin(DOMAIN pending[last'.arg.chain])
       /\ (RelayStep /\ last'.out.dest # last'.arg.chain) =>
             pending'[last'.arg.chain]
                 \in {pending[last'.arg.chain],
                      Without(pending[last'.arg.chain], last'.arg.key)}
    ]_vars

\* The relay of a packet of a chain over a channel that leads back to the
\* same chain: the answer was filed in the ledger the packet left
C40_Witness ==
    /\ last.op \in {"relay_packet", "relay_next_packet"}
    /\ last.ret.ok
    /\ last.out.dest = last.out.chain
    /\ \E f \in last.out.filed : f[1] = last.out.chain

\* relay_all_packets served a ledger holding two packets, the lower key
\* first, while the answer to an earlier packet waited on the other chain
C40_FifoWitness ==
    /\ last.op = "relay_next_packet"
    /\ pc = "relaying"
    /\ last.out.dest # last.out.chain
    /\ \E j \in DOMAIN pending[last.out.chain] : j > last.arg.key
    /\ last.out.filed # {}

====
